---- MODULE Spec2Model ----
(***************************************************************************)
(* A model of the generator combinators of dungen_minion: the map store    *)
(* (MAPS, one read/write lock per map), the visit-once guard, the          *)
(* self-and-portals traversal, the portal reciprocation algorithm, the     *)
(* merge of portal maps as sub-maps, the sub-map generator, and the        *)
(* pipelines and combinators on boxed rooms.                               *)
(***************************************************************************)
EXTENDS Integers, Sequences, FiniteSets, TLC

\* ------------------------------------------------------------------ bounds
\* Number of maps in the store (MapIds 0 .. NumMaps-1).
NumMaps == 3
\* Number of portals the store holds before the first generator runs.
MaxInitPortals == 2
\* Number of top-level generator applications of the sequential reciprocation runs.
MaxJobs == 2
\* Number of invocations each thread makes on the visit-once guard.
MaxCalls == 2
\* Deepest nesting of TraverseThisAndPortalsGenerator around the guard, and
\* largest recursion depth of a merge.
MaxDepth == 3
\* Number of portals the store holds before a merge.
MaxMergePortals == 3
\* Number of generator sets of a SubMapGenerator.
MaxSets == 2
\* Largest number provides_count returns for a generator set.
MaxCount == 2
\* Number of maps the map providers of a SubMapGenerator may return.
MaxCandidates == 3
\* Number of rooms a tree of boxed rooms may hold (room 0 is the primary map).
MaxRooms == 4
\* Number of rooms of the tree before the first generator of a pipeline runs.
MaxInitRooms == 3
\* Largest count an EdgePortalsGenerator is constructed with.
MaxEdgeCount == 3
\* Largest width and height of the room an EdgePortalsGenerator is tried on.
MaxSide == 4
\* Longest list of generators a SequentialGenerator is constructed with.
MaxSeqLen == 2
\* Largest width and height of an area given to a tile generator.
MaxFillSide == 4

\* ------------------------------------------------------- program constants
\* A map narrower or lower than this has no edge cell that is not a corner.
MinEdge == 3

Maps == 0 .. (NumMaps - 1)
Threads == {1, 2}
NoThread == 0

\* ---------------------------------------------------------------- geometry
Width(sz) == sz[1]
Height(sz) == sz[2]
ZeroSize == <<0, 0>>
RoomSize == <<4, 3>>
Sizes == {ZeroSize, RoomSize}

\* rng.gen_range(low, high): a value of low .. high-1; an empty range panics.
GenRange(low, high) == IF low < high THEN low .. (high - 1) ELSE {}

\* CardinalDirection and its negation.
Directions == {"North", "East", "South", "West"}
Neg(d) ==
  CASE d = "North" -> "South"
    [] d = "South" -> "North"
    [] d = "East" -> "West"
    [] d = "West" -> "East"

\* The positions the match on portal_facing can produce on a map of size sz.
EdgePositions(d, sz) ==
  CASE d = "North" -> {<<x, 0>> : x \in GenRange(1, Width(sz) - 1)}
    [] d = "East" -> {<<Width(sz) - 1, y>> : y \in GenRange(1, Height(sz) - 1)}
    [] d = "South" -> {<<x, Height(sz) - 1>> : x \in GenRange(1, Width(sz) - 1)}
    [] d = "West" -> {<<0, y>> : y \in GenRange(1, Height(sz) - 1)}

\* ------------------------------------------------------------------- state
VARIABLES
  size,      \* MapId -> Size of the map
  portals,   \* MapId -> sequence of Portal records, in insertion order
  wlock,     \* MapId -> thread holding the map's write lock, or NoThread
  visited,   \* VisitMapOnceGenerator.visited_maps
  vlock,     \* thread holding the write lock of visited_maps, or NoThread
  gcount,    \* MapId -> number of times the wrapped generator G has run on it
  offers,    \* MapId -> number of invocations of the guard with that MapId
  pc,        \* thread -> position in its code
  stack,     \* thread -> frames of the nested traversal generators
  cur,       \* thread -> map_id of the innermost generator call
  entry,     \* thread -> entry point of the innermost call
  ri,        \* thread -> index of the portal the reciprocation loop is at
  budget,    \* thread -> top-level applications it may still start
  job,       \* thread -> the top-level application it started last
  fresh,     \* thread -> its guard call started with the MapId not yet visited
  ran,       \* thread -> its last guard call ran G
  before,    \* portals when the latest reciprocation run started
  pre,       \* portals when the latest top-level application started
  hist,      \* maps of the completed reciprocation runs, oldest first
  panicked,  \* a gen_range call was given an empty range
  sub_maps,  \* MapId -> sequence of sub-map entries (position, MapId), in order
  pre_subs,  \* sub_maps when the latest top-level application started
  mvisited,  \* MergePortalMapsAsSubMapsGenerator.visited
  mvlock,    \* thread holding the write lock of that visited set, or NoThread
  recursion_depth,  \* MergePortalMapsAsSubMapsGenerator.recursion_depth
  portal_filter,    \* MergePortalMapsAsSubMapsGenerator.portal_filter
  on_maps,   \* the work queue of the merge: (position, depth, MapId) entries
  found,     \* the portals through which the merge first reached each map
  smg,       \* the SubMapGenerator that is applied: its sets and global fields
  set_i,     \* index of the generator set the SubMapGenerator is at
  placed,    \* iterations of `for _ in 0..count` completed in that set
  candidates,  \* the maps the map providers returned, oldest first
  invalid,   \* the MapIds that were passed to invalidate_map
  num_maps,  \* number of maps in MAPS: the next MapId a provider returns
  sm_panicked,  \* no map provider was found
  room_size,     \* room -> Size of the boxed room
  room_portals,  \* room -> its portals (position, facing, boxed target), in order
  num_rooms,     \* number of rooms constructed so far: the next room's name
  work,          \* generator calls still to be made, the next one first
  applied,       \* every generator call made so far, oldest first
  pre_rooms,     \* the rooms when the latest call on the pipeline started
  tiles,         \* position -> tile of the pipeline's primary map
  pre_tiles      \* tiles when the latest call on the pipeline started

storeVars == <<size, portals, wlock>>
guardVars == <<visited, vlock, gcount, offers, fresh, ran>>
recipVars == <<ri, before, hist, panicked>>
mergeVars == <<mvisited, mvlock, recursion_depth, portal_filter, on_maps, found>>
placeVars == <<smg, set_i, placed, candidates, invalid, num_maps, sm_panicked>>
roomVars == <<room_size, room_portals, num_rooms>>
tileVars == <<tiles, pre_tiles>>
combVars == <<roomVars, work, applied, pre_rooms, tileVars>>
extVars == <<sub_maps, pre_subs, mergeVars, placeVars, combVars>>
vars == <<size, portals, wlock, visited, vlock, gcount, offers, pc, stack, cur,
          entry, ri, budget, job, fresh, ran, before, pre, hist, panicked,
          sub_maps, pre_subs, mvisited, mvlock, recursion_depth, portal_filter,
          on_maps, found, smg, set_i, placed, candidates, invalid, num_maps,
          sm_panicked, room_size, room_portals, num_rooms, work, applied,
          pre_rooms, tiles, pre_tiles>>

NoJob == [gen |-> "none", root |-> 0, depth |-> 0]

\* No SubMapGenerator has been constructed.
NoSubMapGenerator ==
  [sets |-> <<>>, fallback_map_provider |-> FALSE,
   global_sub_map_generators |-> FALSE, validity_check |-> FALSE]

\* What a thread does when its innermost generator call returns: it goes on
\* with the traversal generator or with the calls that are still to be made,
\* or the pipeline call has returned.
Return(t) ==
  IF stack[t] # <<>> THEN "trav" ELSE IF work # <<>> THEN "run" ELSE "idle"

AllIdle == \A t \in Threads : pc[t] = "idle"

\* TileType, and what tile_type_at_local returns for a cell that was never set.
TileTypes == {"Void", "Floor", "Wall", "Portal"}
NoTile == "None"

\* The cells the generators of the model can set, and the tiles of a new map.
\* Column -1 and row -1 are what area.right() and area.bottom() are for an
\* area at the origin without width or without height.
GridPositions == (-1 .. MaxFillSide) \X (-1 .. MaxFillSide)
NewTiles == [p \in GridPositions |-> NoTile]

\* Everything but the map store, the boxed rooms and the per-thread budget.
InitShared ==
  /\ wlock = [m \in Maps |-> NoThread]
  /\ visited = {}
  /\ vlock = NoThread
  /\ gcount = [m \in Maps |-> 0]
  /\ offers = [m \in Maps |-> 0]
  /\ pc = [t \in Threads |-> "idle"]
  /\ stack = [t \in Threads |-> <<>>]
  /\ cur = [t \in Threads |-> 0]
  /\ entry = [t \in Threads |-> "none"]
  /\ ri = [t \in Threads |-> 0]
  /\ job = [t \in Threads |-> NoJob]
  /\ fresh = [t \in Threads |-> FALSE]
  /\ ran = [t \in Threads |-> FALSE]
  /\ hist = <<>>
  /\ panicked = FALSE
  /\ sub_maps = [m \in Maps |-> <<>>]
  /\ pre_subs = sub_maps
  /\ mvisited = {}
  /\ mvlock = NoThread
  /\ recursion_depth = 0
  /\ portal_filter = "all"
  /\ on_maps = <<>>
  /\ found = <<>>
  /\ smg = NoSubMapGenerator
  /\ set_i = 0
  /\ placed = 0
  /\ candidates = <<>>
  /\ invalid = {}
  /\ num_maps = NumMaps
  /\ sm_panicked = FALSE
  /\ work = <<>>
  /\ applied = <<>>
  /\ tiles = NewTiles
  /\ pre_tiles = NewTiles

\* DunGen::new(Box::new(RoomHashMap::new())): one room of size zero, no portals.
NewRooms ==
  [size |-> [r \in 0 .. (MaxRooms - 1) |-> ZeroSize],
   portals |-> [r \in 0 .. (MaxRooms - 1) |-> <<>>],
   num |-> 1]

\* Everything but the map store and the per-thread budget, for a pipeline on
\* MapIds.
InitControl ==
  /\ InitShared
  /\ room_size = NewRooms.size
  /\ room_portals = NewRooms.portals
  /\ num_rooms = NewRooms.num
  /\ pre_rooms = NewRooms

\* ------------------------------------------------- VisitMapOnceGenerator
\* SupportsDunGen::get_map_id of the pipeline the guard is applied to.
GetMapId(t) == cur[t]

\* RwLock::write on visited_maps succeeds when nobody holds the lock.
VisitedLockAlwaysFree == TRUE
VisitedLockFree == vlock = NoThread

\* HashSet::contains.
ContainsNothing(set, m) == FALSE
Contains(set, m) == m \in set

\* HashSet::insert.
InsertNothing(set, m) == set
Insert(set, m) == set \cup {m}

\* A thread applies the guard to a map, through either entry point.
VCall(t) ==
  /\ pc[t] = "idle"
  /\ budget[t] > 0
  /\ \E m \in Maps, e \in {"dun_gen", "dun_gen_map"} :
       /\ cur' = [cur EXCEPT ![t] = m]
       /\ entry' = [entry EXCEPT ![t] = e]
       /\ offers' = [offers EXCEPT ![m] = @ + 1]
       /\ fresh' = [fresh EXCEPT ![t] = m \notin visited]
       /\ job' = [job EXCEPT ![t] = [gen |-> "visit", root |-> m, depth |-> 0]]
  /\ budget' = [budget EXCEPT ![t] = @ - 1]
  /\ pc' = [pc EXCEPT ![t] = "v_lock"]
  /\ ran' = [ran EXCEPT ![t] = FALSE]
  /\ pre' = portals
  /\ UNCHANGED <<storeVars, visited, vlock, gcount, stack, recipVars,
                 extVars>>

\* let mut visited_maps = self.visited_maps.write().unwrap();
VLock(t) ==
  /\ pc[t] = "v_lock"
  /\ VisitedLockFree
  /\ vlock' = t
  /\ pc' = [pc EXCEPT ![t] = "v_check"]
  /\ UNCHANGED <<storeVars, visited, gcount, offers, fresh, ran, stack, cur,
                 entry, budget, job, pre, recipVars,
                 extVars>>

\* if visited_maps.contains(..) { return; }   (the guard is dropped on return)
VCheck(t) ==
  /\ pc[t] = "v_check"
  /\ IF Contains(visited, GetMapId(t))
       THEN /\ vlock' = NoThread
            /\ pc' = [pc EXCEPT ![t] = Return(t)]
       ELSE /\ vlock' = vlock
            /\ pc' = [pc EXCEPT ![t] = "v_insert"]
  /\ UNCHANGED <<storeVars, visited, gcount, offers, fresh, ran, stack, cur,
                 entry, budget, job, pre, recipVars,
                 extVars>>

\* The end of the block in which visited_maps is locked: the guard is dropped
\* before the wrapped generator is called.
GuardKept(t) == t
GuardDropped(t) == NoThread

\* visited_maps.insert(..); and the end of the block, which drops the guard.
VInsert(t) ==
  /\ pc[t] = "v_insert"
  /\ visited' = Insert(visited, GetMapId(t))
  /\ vlock' = GuardDropped(t)
  /\ pc' = [pc EXCEPT ![t] = "v_inner"]
  /\ UNCHANGED <<storeVars, gcount, offers, fresh, ran, stack, cur, entry,
                 budget, job, pre, recipVars,
                 extVars>>

\* self.dun_gen.dun_gen(target) / self.dun_gen.dun_gen_map(map_id): G runs.
VInner(t) ==
  /\ pc[t] = "v_inner"
  /\ gcount' = [gcount EXCEPT ![cur[t]] = @ + 1]
  /\ ran' = [ran EXCEPT ![t] = TRUE]
  /\ pc' = [pc EXCEPT ![t] = Return(t)]
  /\ UNCHANGED <<storeVars, visited, vlock, offers, fresh, stack, cur, entry,
                 budget, job, pre, recipVars,
                 extVars>>

\* Two threads share one guard instance; the maps themselves play no part.
InitVisit ==
  /\ InitControl
  /\ size = [m \in Maps |-> RoomSize]
  /\ portals = [m \in Maps |-> <<>>]
  /\ budget = [t \in Threads |-> MaxCalls]
  /\ before = portals
  /\ pre = portals

NextVisit ==
  \/ \E t \in Threads : VCall(t)
  \/ \E t \in Threads : VLock(t)
  \/ \E t \in Threads : VCheck(t)
  \/ \E t \in Threads : VInsert(t)
  \/ \E t \in Threads : VInner(t)

SpecVisit == InitVisit /\ [][NextVisit]_vars

\* ------------------------------------- TraverseThisAndPortalsGenerator
\* One frame per traversal generator that is executing: the map it was given,
\* how many traversal generators are nested below it (0: the wrapped
\* generator itself), and how far its body has come.
Frame(m, d) == [map |-> m, depth |-> d, phase |-> "self", targets |-> <<>>]

\* The targets of the portals of a map, in the order of its portal list.
PortalTargets(m) == [i \in 1 .. Len(portals[m]) |-> portals[m][i].target]

\* The first position of the wrapped generator of a job.
LeafStart(gen) == IF gen = "visit" THEN "v_lock" ELSE "r_call"

\* TraverseThisAndPortalsGenerator::dun_gen_map, one step of it:
\*   self.dun_gen.dun_gen_map(map);
\*   for portal_mut in map.portals_mut() { self.dun_gen.dun_gen_placed_map(target) }
\* A frame of depth 0 is the call of the wrapped generator.
TravStep(t) ==
  /\ pc[t] = "trav"
  /\ stack[t] # <<>>
  /\ LET top == Head(stack[t])
         rest == Tail(stack[t])
         tg == IF top.phase = "portals" THEN PortalTargets(top.map) ELSE top.targets
     IN
       IF top.depth = 0
         THEN /\ stack' = [stack EXCEPT ![t] = rest]
              /\ cur' = [cur EXCEPT ![t] = top.map]
              /\ entry' = [entry EXCEPT ![t] = "dun_gen_map"]
              /\ pc' = [pc EXCEPT ![t] = LeafStart(job[t].gen)]
              /\ IF job[t].gen = "visit"
                   THEN /\ offers' = [offers EXCEPT ![top.map] = @ + 1]
                        /\ fresh' = [fresh EXCEPT ![t] = top.map \notin visited]
                        /\ ran' = [ran EXCEPT ![t] = FALSE]
                   ELSE UNCHANGED <<offers, fresh, ran>>
         ELSE /\ UNCHANGED <<cur, entry, offers, fresh, ran>>
              /\ IF top.phase = "self"
                   THEN /\ stack' = [stack EXCEPT ![t] =
                              <<Frame(top.map, top.depth - 1),
                                [top EXCEPT !.phase = "portals"]>> \o rest]
                        /\ pc' = pc
                   ELSE IF tg = <<>>
                     THEN /\ stack' = [stack EXCEPT ![t] = rest]
                          /\ pc' = [pc EXCEPT ![t] =
                                IF rest = <<>> THEN "idle" ELSE "trav"]
                     ELSE /\ stack' = [stack EXCEPT ![t] =
                                <<Frame(Head(tg), top.depth - 1),
                                  [top EXCEPT !.phase = "loop", !.targets = Tail(tg)]>>
                                \o rest]
                          /\ pc' = pc
  /\ UNCHANGED <<storeVars, visited, vlock, gcount, budget, job, pre, recipVars,
                 extVars>>

\* gen_with(TraverseThisAndPortalsGenerator::new(... VisitMapOnceGenerator::new(G)))
\* with the traversal generator nested d deep, applied to a map of the cycle.
TravVisitCall(t) ==
  /\ pc[t] = "idle"
  /\ budget[t] > 0
  /\ \E m \in Maps, d \in 1 .. MaxDepth :
       /\ portals[m] # <<>>
       /\ stack' = [stack EXCEPT ![t] = <<Frame(m, d)>>]
       /\ job' = [job EXCEPT ![t] = [gen |-> "visit", root |-> m, depth |-> d]]
  /\ budget' = [budget EXCEPT ![t] = @ - 1]
  /\ pc' = [pc EXCEPT ![t] = "trav"]
  /\ pre' = portals
  /\ UNCHANGED <<storeVars, guardVars, cur, entry, recipVars,
                 extVars>>

\* A Portal as Map::add_portal(local_position, facing, position, target) stores it.
Portal(lp, facing, ptmp, target) ==
  [lp |-> lp, facing |-> facing, ptmp |-> ptmp, target |-> target]

\* The portal graph map0 -> map1 -> ... -> map(k-1) -> map0.
CycleGraph(k) ==
  [m \in Maps |->
     IF m < k THEN <<Portal(<<1, 0>>, "South", <<0, 0>>, (m + 1) % k)>> ELSE <<>>]

CycleLen == Cardinality({m \in Maps : portals[m] # <<>>})

InitTrav ==
  /\ InitControl
  /\ size = [m \in Maps |-> RoomSize]
  /\ \E k \in 1 .. NumMaps : portals = CycleGraph(k)
  /\ budget = [t \in Threads |-> IF t = 1 THEN 1 ELSE 0]
  /\ before = portals
  /\ pre = portals

NextTrav ==
  \/ \E t \in Threads : TravVisitCall(t)
  \/ \E t \in Threads : TravStep(t)
  \/ \E t \in Threads : VLock(t)
  \/ \E t \in Threads : VCheck(t)
  \/ \E t \in Threads : VInsert(t)
  \/ \E t \in Threads : VInner(t)

\* The thread that runs the pipeline keeps running until the pipeline returns.
SpecTrav == InitTrav /\ [][NextTrav]_vars /\ WF_vars(NextTrav)

\* --------------------------------------------- ReciprocatePortalsGenerator
\* size.width() < 3 || size.height() < 3
IsDegenerate(sz) == Width(sz) < MinEdge \/ Height(sz) < MinEdge

\* The check on the map the generator is applied to.
MapNeverTooSmall(sz) == FALSE
MapTooSmall(sz) == IsDegenerate(sz)

\* The check on the map behind a portal.
TargetNeverTooSmall(sz) == FALSE
TargetTooSmall(sz) == IsDegenerate(sz)

\* maps[id].write() succeeds when nobody holds the lock of that map.
MapLockFree(m) == wlock[m] = NoThread

\* The loop over the target's portals that sets found_match.
FoundMatchNever(p, others) == FALSE
FoundMatch(p, others) == \E j \in 1 .. Len(others) : p.lp = others[j].ptmp

\* *portal_mut.portal_to_map_position_mut() = target_local_position;
KeepPortalToMapPosition(p, pos) == p
SetPortalToMapPosition(p, pos) == [p EXCEPT !.ptmp = pos]

\* target_map_mut.add_portal(target_local_position, -portal_facing,
\*                           *portal_mut.local_position(), map_id);
AddPortal(list, pos, p, m) == Append(list, Portal(pos, Neg(p.facing), p.lp, m))

\* gen_with(ReciprocatePortalsGenerator::new()) (d = 0) or
\* gen_with(TraverseThisAndPortalsGenerator::new(ReciprocatePortalsGenerator::new()))
\* (d = 1) on a map.
RecipCall(t) ==
  /\ pc[t] = "idle"
  /\ budget[t] > 0
  /\ \E m \in Maps, d \in {0, 1} :
       /\ stack' = [stack EXCEPT ![t] = <<Frame(m, d)>>]
       /\ job' = [job EXCEPT ![t] = [gen |-> "recip", root |-> m, depth |-> d]]
  /\ budget' = [budget EXCEPT ![t] = @ - 1]
  /\ pc' = [pc EXCEPT ![t] = "trav"]
  /\ pre' = portals
  /\ UNCHANGED <<storeVars, guardVars, cur, entry, recipVars,
                 extVars>>

\* dun_gen_map up to the head of the loop: the write lock on the map, the size
\* check, and the first portal if there is one. Returning drops the lock.
RLockMap(t) ==
  /\ pc[t] = "r_call"
  /\ MapLockFree(cur[t])
  /\ before' = portals
  /\ IF MapTooSmall(size[cur[t]]) \/ portals[cur[t]] = <<>>
       THEN /\ pc' = [pc EXCEPT ![t] = Return(t)]
            /\ hist' = Append(hist, cur[t])
            /\ UNCHANGED <<wlock, ri>>
       ELSE /\ wlock' = [wlock EXCEPT ![cur[t]] = t]
            /\ ri' = [ri EXCEPT ![t] = 1]
            /\ pc' = [pc EXCEPT ![t] = "r_wait"]
            /\ hist' = hist
  /\ UNCHANGED <<size, portals, guardVars, stack, cur, entry, budget, job, pre,
                 panicked, extVars>>

\* One iteration of the loop over the portals: the write lock on the target,
\* its size check, the search for a matching portal and the new portal. The
\* lock on the target is dropped at the end of the iteration, the lock on the
\* map when the function returns.
RPortal(t) ==
  /\ pc[t] = "r_wait"
  /\ LET m == cur[t]
         p == portals[m][ri[t]]
         tgt == p.target
         last == ri[t] = Len(portals[m])
     IN
       /\ MapLockFree(tgt)
       /\ IF TargetTooSmall(size[tgt])
            THEN /\ wlock' = [wlock EXCEPT ![m] = NoThread]
                 /\ pc' = [pc EXCEPT ![t] = Return(t)]
                 /\ hist' = Append(hist, m)
                 /\ UNCHANGED <<portals, ri, panicked>>
            ELSE IF ~FoundMatch(p, portals[tgt])
                      /\ EdgePositions(p.facing, size[tgt]) = {}
              THEN /\ panicked' = TRUE
                   /\ pc' = [pc EXCEPT ![t] = "panic"]
                   /\ UNCHANGED <<portals, wlock, ri, hist>>
              ELSE /\ IF FoundMatch(p, portals[tgt])
                        THEN portals' = portals
                        ELSE \E pos \in EdgePositions(p.facing, size[tgt]) :
                               portals' = [portals EXCEPT
                                 ![tgt] = AddPortal(@, pos, p, m),
                                 ![m][ri[t]] = SetPortalToMapPosition(@, pos)]
                   /\ panicked' = panicked
                   /\ IF last
                        THEN /\ wlock' = [wlock EXCEPT ![m] = NoThread]
                             /\ pc' = [pc EXCEPT ![t] = Return(t)]
                             /\ hist' = Append(hist, m)
                             /\ ri' = ri
                        ELSE /\ ri' = [ri EXCEPT ![t] = @ + 1]
                             /\ UNCHANGED <<wlock, pc, hist>>
  /\ UNCHANGED <<size, guardVars, stack, cur, entry, budget, job, pre, before,
                 extVars>>

\* Where EdgePortalsGenerator puts portals: on an edge, never in a corner.
LocalPositions == {<<1, 0>>, <<0, 1>>}

\* The direction EdgePortalsGenerator gives a portal on the top or left wall.
InitFacing(lp) == IF lp[2] = 0 THEN "South" ELSE "East"

\* The portals the store starts with, in the order they were added.
InitEdges == [owner : Maps, lp : LocalPositions, target : Maps]
InitEdgeSeqs == UNION {[1 .. n -> InitEdges] : n \in 0 .. MaxInitPortals}
GraphOf(es) ==
  [m \in Maps |->
     LET Owned(e) == e.owner = m
         own == SelectSeq(es, Owned)
     IN [i \in 1 .. Len(own) |->
           Portal(own[i].lp, InitFacing(own[i].lp), <<0, 0>>, own[i].target)]]

\* Any portal graph, self-loops and cycles included. Portals are only ever
\* added to maps of at least 3x3, so a map that owns portals is that large;
\* a map without portals may still have the size of a new map.
InitStore ==
  /\ \E es \in InitEdgeSeqs : portals = GraphOf(es)
  /\ size \in [Maps -> Sizes]
  /\ \A m \in Maps : portals[m] # <<>> => ~IsDegenerate(size[m])
  /\ before = portals
  /\ pre = portals

\* One thread applies generators one after the other.
InitRecip ==
  /\ InitControl
  /\ InitStore
  /\ budget = [t \in Threads |-> IF t = 1 THEN MaxJobs ELSE 0]

\* Two threads apply one generator each, at the same time.
InitRecipConc ==
  /\ InitControl
  /\ InitStore
  /\ budget = [t \in Threads |-> 1]

\* Each of the two threads applies gen_with(ReciprocatePortalsGenerator::new())
\* to a map of its own choice.
RecipCallPlain(t) ==
  /\ pc[t] = "idle"
  /\ budget[t] > 0
  /\ \E m \in Maps :
       /\ stack' = [stack EXCEPT ![t] = <<Frame(m, 0)>>]
       /\ job' = [job EXCEPT ![t] = [gen |-> "recip", root |-> m, depth |-> 0]]
  /\ budget' = [budget EXCEPT ![t] = @ - 1]
  /\ pc' = [pc EXCEPT ![t] = "trav"]
  /\ pre' = portals
  /\ UNCHANGED <<storeVars, guardVars, cur, entry, recipVars,
                 extVars>>

NextRecipConc ==
  \/ \E t \in Threads : RecipCallPlain(t)
  \/ \E t \in Threads : TravStep(t)
  \/ \E t \in Threads : RLockMap(t)
  \/ \E t \in Threads : RPortal(t)

NextRecip ==
  \/ \E t \in Threads : RecipCall(t)
  \/ \E t \in Threads : TravStep(t)
  \/ \E t \in Threads : RLockMap(t)
  \/ \E t \in Threads : RPortal(t)

SpecRecip == InitRecip /\ [][NextRecip]_vars
SpecRecipConc == InitRecipConc /\ [][NextRecipConc]_vars

\* ------------------------------------- MergePortalMapsAsSubMapsGenerator
\* Position + Position and Position - Position.
PosAdd(a, b) == <<a[1] + b[1], a[2] + b[2]>>
PosSub(a, b) == <<a[1] - b[1], a[2] - b[2]>>

\* The portal filters a generator is constructed with: |portal| true, and a
\* filter that accepts the portals facing South only.
PortalFilters == {"all", "south"}
PortalFilterAcceptsAll(f, p) == TRUE
PortalFilter(f, p) == IF f = "all" THEN TRUE ELSE p.facing = "South"

\* let portal_map_position =
\*     *portal.local_position() - (*portal.portal_to_map_position());
PortalMapPositionSwapped(p) == PosSub(p.ptmp, p.lp)
PortalMapPosition(p) == PosSub(p.lp, p.ptmp)

\* accumulated_position + *portal_map_position
AccumulatedPositionDropped(acc, pos) == pos
AccumulatedPosition(acc, pos) == PosAdd(acc, pos)

\* visited.insert(map_id): the map the generator is applied to is visited.
VisitRootNot(v, m) == v
VisitRoot(v, m) == Insert(v, m)

\* if visited.contains(&portal_map_id) { continue; }
TargetVisitedNever(v, m) == FALSE
TargetVisited(v, m) == Contains(v, m)

\* recursion_depth - 1, the depth that is left for the maps behind a new map.
NextDepth(d) == d - 1

\* map.add_sub_map(..): the map whose sub-map list gets the new entries is the
\* map the generator was applied to.
AddSubMapToTarget(root, m) == m
AddSubMapTo(root, m) == root

\* A sub-map entry as Map::add_sub_map(position, map_id) stores it.
SubMap(pos, m) == [pos |-> pos, map |-> m]
AddSubMapDropped(list, pos, m) == list
AddSubMapOrRemove(list, pos, m) ==
  IF list = <<>> THEN Append(list, SubMap(pos, m)) ELSE Tail(list)
AddSubMap(list, pos, m) == Append(list, SubMap(pos, m))

\* The loop over the portals of a map that fills positions_map_ids: every
\* portal the filter accepts whose target is not yet visited marks its target
\* visited and pushes (portal_map_position, portal_map_id). The result is the
\* visited set and positions_map_ids after the loop; index is the place of the
\* portal in the list.
RECURSIVE CollectPortals(_, _, _, _)
CollectPortals(list, i, v, ids) ==
  IF i > Len(list)
    THEN [visited |-> v, positions_map_ids |-> ids]
    ELSE IF PortalFilter(portal_filter, list[i]) /\ ~TargetVisited(v, list[i].target)
      THEN CollectPortals(list, i + 1, Insert(v, list[i].target),
             Append(ids, [pos |-> PortalMapPosition(list[i]),
                          map |-> list[i].target, index |-> i]))
      ELSE CollectPortals(list, i + 1, v, ids)

\* The loop over positions_map_ids: the entries it adds to a sub-map list and
\* the entries it pushes on on_maps, for the accumulated position acc.
RECURSIVE AddSubMaps(_, _, _)
AddSubMaps(list, ids, acc) ==
  IF ids = <<>> THEN list
  ELSE AddSubMaps(AddSubMap(list, AccumulatedPosition(acc, Head(ids).pos),
                            Head(ids).map),
                  Tail(ids), acc)
OnMapsEntries(ids, acc, depth) ==
  [i \in 1 .. Len(ids) |->
     [pos |-> AccumulatedPosition(acc, ids[i].pos), depth |-> NextDepth(depth),
      map |-> ids[i].map]]

\* The portals the maps of positions_map_ids were reached through.
FoundEntries(ids, from) ==
  [i \in 1 .. Len(ids) |-> [map |-> ids[i].map, from |-> from, index |-> ids[i].index]]

\* gen_with(MergePortalMapsAsSubMapsGenerator::new(d, f)) on a map.
MergeCall(t) ==
  /\ pc[t] = "idle"
  /\ budget[t] > 0
  /\ \E m \in Maps, d \in 0 .. MaxDepth, f \in PortalFilters :
       /\ cur' = [cur EXCEPT ![t] = m]
       /\ job' = [job EXCEPT ![t] = [gen |-> "merge", root |-> m, depth |-> d]]
       /\ recursion_depth' = d
       /\ portal_filter' = f
  /\ mvisited' = {}
  /\ on_maps' = <<>>
  /\ found' = <<>>
  /\ entry' = [entry EXCEPT ![t] = "dun_gen"]
  /\ budget' = [budget EXCEPT ![t] = @ - 1]
  /\ pc' = [pc EXCEPT ![t] = "m_call"]
  /\ pre' = portals
  /\ pre_subs' = sub_maps
  /\ UNCHANGED <<storeVars, guardVars, stack, recipVars, sub_maps, mvlock,
                 placeVars>>
  /\ UNCHANGED combVars

\* dun_gen_map up to the while loop: the write lock on visited, the test and
\* insertion of the map, the depth check, the write lock on the map, the loop
\* over its portals and the loop over positions_map_ids. Returning drops both
\* locks.
MEnter(t) ==
  /\ pc[t] = "m_call"
  /\ mvlock = NoThread
  /\ LET root == cur[t]
         c == CollectPortals(portals[root], 1, VisitRoot(mvisited, root), <<>>)
         ids == c.positions_map_ids
     IN
       IF Contains(mvisited, root)
         THEN /\ pc' = [pc EXCEPT ![t] = Return(t)]
              /\ UNCHANGED <<wlock, sub_maps, mvisited, mvlock, on_maps, found>>
         ELSE IF recursion_depth = 0
           THEN /\ mvisited' = VisitRoot(mvisited, root)
                /\ pc' = [pc EXCEPT ![t] = Return(t)]
                /\ UNCHANGED <<wlock, sub_maps, mvlock, on_maps, found>>
           ELSE /\ MapLockFree(root)
                /\ mvisited' = c.visited
                /\ sub_maps' = [sub_maps EXCEPT ![AddSubMapTo(root, root)] =
                                  AddSubMaps(@, ids, <<0, 0>>)]
                /\ found' = found \o FoundEntries(ids, root)
                /\ IF recursion_depth = 1
                     THEN /\ pc' = [pc EXCEPT ![t] = Return(t)]
                          /\ UNCHANGED <<wlock, mvlock, on_maps>>
                     ELSE /\ on_maps' = OnMapsEntries(ids, <<0, 0>>, recursion_depth)
                          /\ wlock' = [wlock EXCEPT ![root] = t]
                          /\ mvlock' = t
                          /\ pc' = [pc EXCEPT ![t] = "m_loop"]
  /\ UNCHANGED <<size, portals, guardVars, stack, cur, entry, budget, job, pre,
                 recipVars, pre_subs, recursion_depth, portal_filter, placeVars>>
  /\ UNCHANGED combVars

\* One iteration of `while !on_maps.is_empty()`: the entry popped off the
\* front, the read lock on its map, the loop over that map's portals and the
\* loop over positions_map_ids; or, when on_maps is empty, the return, which
\* drops the write locks on the map and on visited.
MLoop(t) ==
  /\ pc[t] = "m_loop"
  /\ LET root == cur[t] IN
       IF on_maps = <<>>
         THEN /\ wlock' = [wlock EXCEPT ![root] = NoThread]
              /\ mvlock' = NoThread
              /\ pc' = [pc EXCEPT ![t] = Return(t)]
              /\ UNCHANGED <<sub_maps, mvisited, on_maps, found>>
         ELSE LET e == Head(on_maps)
                  c == CollectPortals(portals[e.map], 1, mvisited, <<>>)
                  ids == c.positions_map_ids
              IN IF e.depth = 0
                   THEN /\ on_maps' = Tail(on_maps)
                        /\ UNCHANGED <<wlock, sub_maps, mvisited, mvlock, found, pc>>
                   ELSE /\ MapLockFree(e.map)
                        /\ mvisited' = c.visited
                        /\ sub_maps' = [sub_maps EXCEPT ![AddSubMapTo(root, e.map)] =
                                          AddSubMaps(@, ids, e.pos)]
                        /\ on_maps' = Tail(on_maps) \o OnMapsEntries(ids, e.pos, e.depth)
                        /\ found' = found \o FoundEntries(ids, e.map)
                        /\ UNCHANGED <<wlock, mvlock, pc>>
  /\ UNCHANGED <<size, portals, guardVars, stack, cur, entry, budget, job, pre,
                 recipVars, pre_subs, recursion_depth, portal_filter, placeVars>>
  /\ UNCHANGED combVars

\* Where a portal can lead to on its target: the origin (a portal that has not
\* been reciprocated) or a cell of the target's right edge.
ArrivalPositions == {<<0, 0>>, <<3, 1>>}

\* The portals the store starts with before a merge, in the order they were
\* added: any portal graph, self-loops, cycles and parallel portals included.
MergeEdges == [owner : Maps, lp : LocalPositions, ptmp : ArrivalPositions, target : Maps]
MergeGraphOf(es) ==
  [m \in Maps |->
     LET Owned(e) == e.owner = m
         own == SelectSeq(es, Owned)
     IN [i \in 1 .. Len(own) |->
           Portal(own[i].lp, InitFacing(own[i].lp), own[i].ptmp, own[i].target)]]

InitMerge ==
  /\ InitControl
  /\ size = [m \in Maps |-> RoomSize]
  /\ \E n \in 0 .. MaxMergePortals :
       \E es \in [1 .. n -> MergeEdges] : portals = MergeGraphOf(es)
  /\ budget = [t \in Threads |-> IF t = 1 THEN 1 ELSE 0]
  /\ before = portals
  /\ pre = portals

NextMerge ==
  \/ \E t \in Threads : MergeCall(t)
  \/ \E t \in Threads : MEnter(t)
  \/ \E t \in Threads : MLoop(t)

SpecMerge == InitMerge /\ [][NextMerge]_vars

\* The same for the runs that are checked for termination: every portal graph
\* of portals that have not been reciprocated (where a portal leads to on its
\* target plays no part in what the merge visits).
InitMergeLive ==
  /\ InitControl
  /\ size = [m \in Maps |-> RoomSize]
  /\ \E n \in 0 .. MaxMergePortals :
       \E es \in [1 .. n -> InitEdges] : portals = GraphOf(es)
  /\ budget = [t \in Threads |-> IF t = 1 THEN 1 ELSE 0]
  /\ before = portals
  /\ pre = portals

\* The thread that applies the generator keeps running until it returns.
SpecMergeLive == InitMergeLive /\ [][NextMerge]_vars /\ WF_vars(NextMerge)

\* --------------------------------------------------------- SubMapGenerator
\* What provides_position.provide_position() can return.
Positions == {<<0, 0>>, <<1, 1>>}

\* A SubMapGeneratorSet: the number provides_count returns, and which of its
\* optional fields are Some. A SubMapGenerator: its sets, and which of its
\* optional fields are Some.
SubMapGeneratorSets ==
  [count : 0 .. MaxCount, provides_map : BOOLEAN, sub_maps_generators : BOOLEAN,
   validity_check : BOOLEAN]
SubMapGenerators ==
  [sets : UNION {[1 .. n -> SubMapGeneratorSets] : n \in 0 .. MaxSets},
   fallback_map_provider : BOOLEAN, global_sub_map_generators : BOOLEAN,
   validity_check : BOOLEAN]

\* if validity_check.is_none() && self.validity_check.is_none() { break; }
NoValidityCheckAlways(set_check, global_check) == TRUE
NoValidityCheckNever(set_check, global_check) == FALSE
NoValidityCheck(set_check, global_check) == ~set_check /\ ~global_check

\* The two `if let Some(validity_check)` blocks that follow: whether the loop
\* is left, and how often invalidate_map(new_map_id) is called. set_ok and
\* global_ok are what the two checks return for (position, new_map_id). The
\* block of the set's check does not end the iteration when it rejects.
LeavesLoopAlways(set_check, global_check, set_ok, global_ok) == TRUE
LeavesLoop(set_check, global_check, set_ok, global_ok) ==
  \/ NoValidityCheck(set_check, global_check)
  \/ set_check /\ set_ok
  \/ global_check /\ global_ok
InvalidateCalls(set_check, global_check, set_ok, global_ok) ==
  IF NoValidityCheck(set_check, global_check) \/ (set_check /\ set_ok)
    THEN 0
    ELSE (IF set_check THEN 1 ELSE 0) + (IF global_check /\ ~global_ok THEN 1 ELSE 0)

\* The generator lists that are run on a new map: the set's, then the global.
GeneratorsRunGlobalFirst(set_gens, global_gens) ==
  (IF global_gens THEN <<"global">> ELSE <<>>) \o (IF set_gens THEN <<"set">> ELSE <<>>)
GeneratorsRun(set_gens, global_gens) ==
  (IF set_gens THEN <<"set">> ELSE <<>>) \o (IF global_gens THEN <<"global">> ELSE <<>>)

\* The validity checks that are evaluated in one iteration of `loop`, and the
\* calls of invalidate_map, in the order of the two `if let` blocks.
ChecksRun(set_check, global_check, set_ok, global_ok) ==
  IF NoValidityCheck(set_check, global_check) THEN <<>>
  ELSE (IF ~set_check THEN <<>>
        ELSE IF set_ok THEN <<"set_check">> ELSE <<"set_check", "invalidate_map">>)
       \o (IF (set_check /\ set_ok) \/ ~global_check THEN <<>>
           ELSE IF global_ok THEN <<"global_check">>
           ELSE <<"global_check", "invalidate_map">>)

\* The calls one iteration of `loop` makes, in order, with the position and
\* the MapId each is given: provide_position(), map_provider(), the
\* generators' dun_gen_map(new_map_id), validity_check(position, new_map_id)
\* and invalidate_map(new_map_id).
NoPosition == <<>>
NoMapId == -1
Step(op, position, map) == [op |-> op, position |-> position, map |-> map]
AttemptSteps(position, new_map_id, gens, checks) ==
  <<Step("provide_position", position, NoMapId),
    Step("map_provider", NoPosition, new_map_id)>>
  \o [i \in 1 .. Len(gens) |-> Step(gens[i], NoPosition, new_map_id)]
  \o [i \in 1 .. Len(checks) |->
        Step(checks[i],
             IF checks[i] = "invalidate_map" THEN NoPosition ELSE position,
             new_map_id)]

\* The map of the pipeline: the first map that was put into MAPS.
PipelineMap == 0

\* DunGen::new(map).gen_with(SubMapGenerator::new(sets, fallback, generators,
\* check)): the generator is applied to the map of the pipeline.
SubMapCall(t) ==
  /\ pc[t] = "idle"
  /\ budget[t] > 0
  /\ \E g \in SubMapGenerators : smg' = g
  /\ cur' = [cur EXCEPT ![t] = PipelineMap]
  /\ job' = [job EXCEPT ![t] = [gen |-> "sub_map", root |-> PipelineMap, depth |-> 0]]
  /\ set_i' = 1
  /\ placed' = 0
  /\ candidates' = <<>>
  /\ entry' = [entry EXCEPT ![t] = "dun_gen"]
  /\ budget' = [budget EXCEPT ![t] = @ - 1]
  /\ pc' = [pc EXCEPT ![t] = "s_set"]
  /\ pre' = portals
  /\ pre_subs' = sub_maps
  /\ UNCHANGED <<storeVars, guardVars, stack, recipVars, sub_maps, mergeVars,
                 invalid, num_maps, sm_panicked>>
  /\ UNCHANGED combVars

\* The heads of `for sub_maps_generator_set in ..` and `for _ in 0..count`.
SSet(t) ==
  /\ pc[t] = "s_set"
  /\ IF set_i > Len(smg.sets)
       THEN /\ pc' = [pc EXCEPT ![t] = Return(t)]
            /\ UNCHANGED <<set_i, placed>>
       ELSE IF placed >= smg.sets[set_i].count
         THEN /\ set_i' = set_i + 1
              /\ placed' = 0
              /\ pc' = pc
         ELSE /\ pc' = [pc EXCEPT ![t] = "s_try"]
              /\ UNCHANGED <<set_i, placed>>
  /\ UNCHANGED <<storeVars, guardVars, stack, cur, entry, budget, job, pre,
                 recipVars, sub_maps, pre_subs, mergeVars, smg, candidates,
                 invalid, num_maps, sm_panicked>>
  /\ UNCHANGED combVars

\* One iteration of `loop`: a position, a new map from the set's provider or
\* the fallback provider (a panic when there is neither), the generators, and
\* the validity checks.
STry(t) ==
  /\ pc[t] = "s_try"
  /\ num_maps - NumMaps < MaxCandidates
  /\ LET set == smg.sets[set_i] IN
       IF ~set.provides_map /\ ~smg.fallback_map_provider
         THEN /\ sm_panicked' = TRUE
              /\ pc' = [pc EXCEPT ![t] = "panic"]
              /\ UNCHANGED <<candidates, invalid, num_maps>>
         ELSE \E position \in Positions,
                 set_ok \in (IF set.validity_check THEN BOOLEAN ELSE {TRUE}),
                 global_ok \in (IF smg.validity_check THEN BOOLEAN ELSE {TRUE}) :
                LET new_map_id == num_maps
                    calls == InvalidateCalls(set.validity_check, smg.validity_check,
                                             set_ok, global_ok)
                IN /\ num_maps' = num_maps + 1
                   /\ candidates' = Append(candidates,
                        [id |-> new_map_id, position |-> position, set |-> set_i,
                         generated |-> GeneratorsRun(set.sub_maps_generators,
                                                     smg.global_sub_map_generators),
                         set_ok |-> set_ok, global_ok |-> global_ok,
                         invalidate_calls |-> calls,
                         steps |-> AttemptSteps(position, new_map_id,
                                     GeneratorsRun(set.sub_maps_generators,
                                                   smg.global_sub_map_generators),
                                     ChecksRun(set.validity_check,
                                               smg.validity_check,
                                               set_ok, global_ok))])
                   /\ invalid' = IF calls > 0 THEN invalid \cup {new_map_id} ELSE invalid
                   /\ pc' = [pc EXCEPT ![t] =
                          IF LeavesLoop(set.validity_check, smg.validity_check,
                                        set_ok, global_ok)
                            THEN "s_add" ELSE "s_try"]
                   /\ sm_panicked' = sm_panicked
  /\ UNCHANGED <<storeVars, guardVars, stack, cur, entry, budget, job, pre,
                 recipVars, sub_maps, pre_subs, mergeVars, smg, set_i, placed>>
  /\ UNCHANGED combVars

\* MAPS.read()[map_id].write().add_sub_map(position, new_map_id);
SAdd(t) ==
  /\ pc[t] = "s_add"
  /\ MapLockFree(cur[t])
  /\ LET c == candidates[Len(candidates)]
     IN sub_maps' = [sub_maps EXCEPT ![cur[t]] = AddSubMap(@, c.position, c.id)]
  /\ placed' = placed + 1
  /\ pc' = [pc EXCEPT ![t] = "s_set"]
  /\ UNCHANGED <<storeVars, guardVars, stack, cur, entry, budget, job, pre,
                 recipVars, pre_subs, mergeVars, smg, set_i, candidates, invalid,
                 num_maps, sm_panicked>>
  /\ UNCHANGED combVars

InitPlace ==
  /\ InitControl
  /\ size = [m \in Maps |-> RoomSize]
  /\ portals = [m \in Maps |-> <<>>]
  /\ budget = [t \in Threads |-> IF t = 1 THEN 1 ELSE 0]
  /\ before = portals
  /\ pre = portals

NextPlace ==
  \/ \E t \in Threads : SubMapCall(t)
  \/ \E t \in Threads : SSet(t)
  \/ \E t \in Threads : STry(t)
  \/ \E t \in Threads : SAdd(t)

SpecPlace == InitPlace /\ [][NextPlace]_vars

\* ------------------------------------------- generators on boxed rooms
\* The rooms of a pipeline: the primary map of DunGen::new(map) and the rooms
\* its portals own, each room owned by exactly one portal.
Rooms == 0 .. (MaxRooms - 1)
PrimaryRoom == 0

\* A portal as Room::add_portal(local_position, facing, target) stores it.
BoxPortal(lp, facing, target) == [lp |-> lp, facing |-> facing, target |-> target]

\* map.portal_count(), and the targets of map.portals_mut() in their order.
PortalCount(r) == Len(room_portals[r])
RoomTargets(r) == [i \in 1 .. PortalCount(r) |-> room_portals[r][i].target]

\* The generators a pipeline is given. A leaf changes the room it is given;
\* the others decide where and whether their wrapped generators are called.
EmptyRoomGenerators == {[kind |-> "empty_room", size |-> RoomSize]}
EdgePortalsGenerators(counts) == {[kind |-> "edge_portals", count |-> c] : c \in counts}
Leaves == EmptyRoomGenerators \cup EdgePortalsGenerators({1})
MapFuncs == {"zero_size", "has_portals"}
IfMapThenGenerators ==
  [kind : {"if_map_then"}, map_func : MapFuncs, placed_map_func : MapFuncs,
   dun_gen : Leaves]
Wrapped == Leaves \cup IfMapThenGenerators
SequentialGenerators ==
  {[kind |-> "sequential", dun_gens |-> l] :
     l \in UNION {[1 .. n -> Leaves] : n \in 0 .. MaxSeqLen}}
TraversalGenerators ==
  [kind : {"traverse_portals", "traverse_this_and_portals",
           "traverse_this_and_portals_dun_gen"},
   dun_gen : Wrapped]
Generators == Wrapped \cup SequentialGenerators \cup TraversalGenerators

\* The closures given to IfMapThenGenerator::new, applied to a room.
MapFunc(f, r) ==
  CASE f = "zero_size" -> room_size[r] = ZeroSize
    [] f = "has_portals" -> PortalCount(r) > 0

\* A call of a generator that is still to be made: the generator, the room,
\* the entry point, its index in the list of a SequentialGenerator, and how
\* far the body of the call has come.
Call(g, r, e, i) == [gen |-> g, room |-> r, entry |-> e, idx |-> i, phase |-> "call"]

\* The number of the call on the pipeline that is running or ran last.
CallNo(t) == MaxJobs - budget[t]

\* What a generator sees of the room it is given, and the record of a call.
Seen(r) == [size |-> room_size[r], count |-> PortalCount(r)]
Record(t, op, left) ==
  [gen |-> op.gen, room |-> op.room, entry |-> op.entry, idx |-> op.idx,
   call |-> CallNo(t), seen |-> Seen(op.room), left |-> left]

\* The variables of the pipelines on MapIds.
mapIdVars ==
  <<storeVars, guardVars, recipVars, stack, cur, entry, pre, sub_maps, pre_subs,
    mergeVars, placeVars>>

\* The call at the head of `work` is a call of a generator of this kind.
Running(t, kind) == pc[t] = "run" /\ work # <<>> /\ Head(work).gen.kind = kind

\* The call at the head of `work` makes the calls `ops`, in this order, and
\* returns; the pipeline call returns when nothing is left to call.
ContinueWith(t, ops) ==
  /\ work' = ops \o Tail(work)
  /\ pc' = [pc EXCEPT ![t] = IF ops \o Tail(work) = <<>> THEN "idle" ELSE "run"]
  /\ UNCHANGED <<budget, job, pre_rooms, pre_tiles, mapIdVars>>

\* The same for a generator that sets no tile.
Continue(t, ops) == ContinueWith(t, ops) /\ UNCHANGED tiles

\* The entry point a DoesDunGen method hands on for the map itself.
MapEntry(e) == IF e \in {"dun_gen", "dun_gen_map"} THEN "dun_gen_map" ELSE "dun_gen_placed_map"

\* DunGen::gen_with(with) and DunGenPlaced::gen_with(with):
\*   with.dun_gen(self) / with.dun_gen_placed(self)
GenWith(t) ==
  /\ pc[t] = "idle"
  /\ budget[t] > 0
  /\ \E g \in Generators, e \in {"dun_gen", "dun_gen_placed"} :
       /\ IF job[t].gen = "none" THEN TRUE ELSE job[t].entry = e
       /\ job' = [job EXCEPT ![t] =
             [gen |-> "gen_with", root |-> PrimaryRoom, depth |-> 0, entry |-> e]]
       /\ work' = <<Call(g, PrimaryRoom, e, 0)>>
  /\ budget' = [budget EXCEPT ![t] = @ - 1]
  /\ pc' = [pc EXCEPT ![t] = "run"]
  /\ pre_rooms' = [size |-> room_size, portals |-> room_portals, num |-> num_rooms]
  /\ UNCHANGED <<roomVars, applied, mapIdVars, tileVars>>

\* EmptyRoomDunGen::dun_gen_map: the tiles of the area become floor, which
\* gives the room the size of the area.
RunEmptyRoom(t) ==
  /\ Running(t, "empty_room")
  /\ LET op == Head(work)
         sz == IF Width(op.gen.size) = 0 \/ Height(op.gen.size) = 0
                 THEN room_size[op.room] ELSE op.gen.size
     IN /\ room_size' = [room_size EXCEPT ![op.room] = sz]
        /\ applied' = Append(applied,
             Record(t, op, [size |-> sz, count |-> PortalCount(op.room)]))
  /\ Continue(t, <<>>)
  /\ UNCHANGED <<room_portals, num_rooms>>

\* What one pass of the loop of EdgePortalsGenerator can add to a room of
\* size sz: a wall by gen_bool, a cell of it by gen_range, the facing inwards.
EdgePortalChoicesWithCorners(sz) ==
  {[lp |-> <<0, y>>, facing |-> "East"] : y \in GenRange(0, Height(sz))}
    \cup {[lp |-> <<Width(sz) - 1, y>>, facing |-> "West"] : y \in GenRange(0, Height(sz))}
    \cup {[lp |-> <<x, 0>>, facing |-> "South"] : x \in GenRange(0, Width(sz))}
    \cup {[lp |-> <<x, Height(sz) - 1>>, facing |-> "North"] : x \in GenRange(0, Width(sz))}
EdgePortalChoices(sz) ==
  {[lp |-> <<0, y>>, facing |-> "East"] : y \in GenRange(1, Height(sz) - 1)}
    \cup {[lp |-> <<Width(sz) - 1, y>>, facing |-> "West"] : y \in GenRange(1, Height(sz) - 1)}
    \cup {[lp |-> <<x, 0>>, facing |-> "South"] : x \in GenRange(1, Width(sz) - 1)}
    \cup {[lp |-> <<x, Height(sz) - 1>>, facing |-> "North"] : x \in GenRange(1, Width(sz) - 1)}

\* if size.width() < 3 || size.height() < 3 { return; }
TooSmallForPortals(sz) == Width(sz) < MinEdge \/ Height(sz) < MinEdge

\* EdgePortalsGenerator::dun_gen_map: count portals, each with a new room from
\* placed_room_box_func as its target.
RunEdgePortals(t) ==
  /\ Running(t, "edge_portals")
  /\ LET op == Head(work)
         sz == room_size[op.room]
         count == IF TooSmallForPortals(sz) THEN 0 ELSE op.gen.count
     IN /\ num_rooms + count <= MaxRooms
        /\ \E cs \in [1 .. count -> EdgePortalChoices(sz)] :
             /\ room_portals' = [room_portals EXCEPT ![op.room] =
                  @ \o [i \in 1 .. count |->
                          BoxPortal(cs[i].lp, cs[i].facing, num_rooms + i - 1)]]
             /\ num_rooms' = num_rooms + count
             /\ applied' = Append(applied,
                  Record(t, op, [size |-> sz, count |-> PortalCount(op.room) + count]))
  /\ Continue(t, <<>>)
  /\ UNCHANGED room_size

\* A combinator changes no room itself; its call is recorded as it starts.
Enter(t, op) ==
  /\ applied' = Append(applied, Record(t, op, Seen(op.room)))
  /\ UNCHANGED roomVars

\* SequentialGenerator: for dun_gen in self.dun_gens { dun_gen.dun_gen(target) }
\* and the same loop in its other entry points.
SequentialCallsReversed(g, r, e) ==
  [i \in 1 .. Len(g.dun_gens) |->
     Call(g.dun_gens[Len(g.dun_gens) + 1 - i], r, e, Len(g.dun_gens) + 1 - i)]
SequentialCalls(g, r, e) ==
  [i \in 1 .. Len(g.dun_gens) |-> Call(g.dun_gens[i], r, e, i)]
RunSequential(t) ==
  /\ Running(t, "sequential")
  /\ LET op == Head(work)
     IN /\ Enter(t, op)
        /\ Continue(t, SequentialCalls(op.gen, op.room, op.entry))

\* The closure an entry point of IfMapThenGenerator asks.
MapFuncOfPlaced(g, e) == g.placed_map_func
MapFuncOf(g, e) ==
  IF e \in {"dun_gen", "dun_gen_map"} THEN g.map_func ELSE g.placed_map_func

\* IfMapThenGenerator: if (self.map_func)(map) { self.dun_gen.dun_gen(target) },
\* with placed_map_func in dun_gen_placed and dun_gen_placed_map.
RunIfMapThen(t) ==
  /\ Running(t, "if_map_then")
  /\ LET op == Head(work)
     IN /\ Enter(t, op)
        /\ Continue(t, IF MapFunc(MapFuncOf(op.gen, op.entry), op.room)
                         THEN <<Call(op.gen.dun_gen, op.room, op.entry, 0)>>
                         ELSE <<>>)

\* The calls TraversePortalsGenerator makes for one portal:
\*   self.dun_gen_placed_map(map); self.dun_gen.dun_gen_placed_map(map);
TraversePortalCalls(g, target) ==
  <<Call(g, target, "dun_gen_placed_map", 0),
    Call(g.dun_gen, target, "dun_gen_placed_map", 0)>>

RECURSIVE Flatten(_)
Flatten(lists) == IF lists = <<>> THEN <<>> ELSE Head(lists) \o Flatten(Tail(lists))

\* TraversePortalsGenerator, each of its four entry points:
\*   for portal_mut in map.portals_mut() { .. }
RunTraversePortals(t) ==
  /\ Running(t, "traverse_portals")
  /\ LET op == Head(work)
         tg == RoomTargets(op.room)
     IN /\ Enter(t, op)
        /\ Continue(t, Flatten([i \in 1 .. Len(tg) |-> TraversePortalCalls(op.gen, tg[i])]))

\* The calls the loop of TraverseThisAndPortalsGenerator makes:
\*   for portal_mut in map.portals_mut() { self.dun_gen.dun_gen_placed_map(map) }
ThisAndPortalsLoopCallsRecursing(g, tg) ==
  [i \in 1 .. Len(tg) |-> Call(g, tg[i], "dun_gen_placed_map", 0)]
ThisAndPortalsLoopCalls(g, tg) ==
  [i \in 1 .. Len(tg) |-> Call(g.dun_gen, tg[i], "dun_gen_placed_map", 0)]

\* TraverseThisAndPortalsGenerator: self.dun_gen.dun_gen_map(map) first, and
\* when that has returned the loop over the portals the map has then.
RunTraverseThisAndPortals(t) ==
  /\ Running(t, "traverse_this_and_portals")
  /\ LET op == Head(work)
         tg == RoomTargets(op.room)
     IN IF op.phase = "call"
          THEN /\ Enter(t, op)
               /\ Continue(t, <<Call(op.gen.dun_gen, op.room, MapEntry(op.entry), 0),
                                [op EXCEPT !.phase = "loop"]>>)
          ELSE /\ UNCHANGED <<applied, roomVars>>
               /\ Continue(t, ThisAndPortalsLoopCalls(op.gen, tg))

\* The calls TraverseThisAndPortalsDunGen makes for one portal:
\*   self.dun_gen.dun_gen_placed_map(map); self.dun_gen.dun_gen_placed_map(map);
ThisAndPortalsDunGenCalls(g, target) ==
  <<Call(g.dun_gen, target, "dun_gen_placed_map", 0),
    Call(g.dun_gen, target, "dun_gen_placed_map", 0)>>

\* TraverseThisAndPortalsDunGen, each of its four entry points.
RunTraverseThisAndPortalsDunGen(t) ==
  /\ Running(t, "traverse_this_and_portals_dun_gen")
  /\ LET op == Head(work)
         tg == RoomTargets(op.room)
     IN /\ Enter(t, op)
        /\ Continue(t, Flatten([i \in 1 .. Len(tg) |->
                                  ThisAndPortalsDunGenCalls(op.gen, tg[i])]))

\* DunGen::gen_leaf_portals_with(with) and DunGenPlaced::gen_leaf_portals_with:
\* the walk starts at the primary map.
GenLeafPortalsWith(t) ==
  /\ pc[t] = "idle"
  /\ budget[t] > 0
  /\ \E g \in Wrapped, e \in {"dun_gen", "dun_gen_placed"} :
       /\ IF job[t].gen = "none" THEN TRUE ELSE job[t].entry = e
       /\ job' = [job EXCEPT ![t] =
             [gen |-> "gen_leaf_portals_with", root |-> PrimaryRoom, depth |-> 0,
              entry |-> e, with |-> g]]
       /\ work' = <<Call([kind |-> "leaf_portals", dun_gen |-> g], PrimaryRoom, e, 0)>>
  /\ budget' = [budget EXCEPT ![t] = @ - 1]
  /\ pc' = [pc EXCEPT ![t] = "run"]
  /\ pre_rooms' = [size |-> room_size, portals |-> room_portals, num |-> num_rooms]
  /\ UNCHANGED <<roomVars, applied, mapIdVars, tileVars>>

\* if current_map.portal_count() == 0
IsLeafAlways(r) == TRUE
IsLeaf(r) == PortalCount(r) = 0

\* One level of gen_leaf_portals_with and gen_leaf_portals_with_impl: the
\* generator on a map without portals, else the walk into every target.
RunLeafPortals(t) ==
  /\ Running(t, "leaf_portals")
  /\ LET op == Head(work)
         tg == RoomTargets(op.room)
         e == IF op.entry = "dun_gen" THEN "dun_gen" ELSE "dun_gen_placed_map"
     IN /\ UNCHANGED <<applied, roomVars>>
        /\ Continue(t, IF IsLeaf(op.room)
                         THEN <<Call(op.gen.dun_gen, op.room, e, 0)>>
                         ELSE [i \in 1 .. Len(tg) |->
                                 Call(op.gen, tg[i], "dun_gen_placed_map", 0)])

\* The trees of rooms earlier stages of a pipeline can have left: the parent
\* of every room but the primary one is a room constructed before it. A room
\* that owns portals was at least 3 by 3 when it got them.
RoomTrees(n) == [1 .. (n - 1) -> 0 .. (n - 2)]
ChildrenOf(parent, n, r) == {c \in 1 .. (n - 1) : parent[c] = r}
RECURSIVE PortalsTo(_)
PortalsTo(cs) ==
  IF cs = {} THEN <<>>
  ELSE LET c == CHOOSE x \in cs : \A y \in cs : x <= y
       IN <<BoxPortal(<<0, 1>>, "East", c)>> \o PortalsTo(cs \ {c})

InitRooms ==
  \E n \in 1 .. MaxInitRooms :
    \E parent \in RoomTrees(n), sizes \in [Rooms -> Sizes] :
      /\ \A c \in 1 .. (n - 1) : parent[c] < c
      /\ \A r \in Rooms :
           /\ r >= n => sizes[r] = ZeroSize
           /\ ChildrenOf(parent, n, r) # {} => sizes[r] = RoomSize
      /\ num_rooms = n
      /\ room_size = sizes
      /\ room_portals = [r \in Rooms |-> PortalsTo(ChildrenOf(parent, n, r))]

InitComb ==
  /\ InitShared
  /\ size = [m \in Maps |-> RoomSize]
  /\ portals = [m \in Maps |-> <<>>]
  /\ budget = [t \in Threads |-> IF t = 1 THEN MaxJobs ELSE 0]
  /\ before = portals
  /\ pre = portals
  /\ InitRooms
  /\ pre_rooms = [size |-> room_size, portals |-> room_portals, num |-> num_rooms]

\* The rooms an EdgePortalsGenerator is tried on: one room of any width and
\* height from 2 to MaxSide, without portals or, when it is large enough to
\* have got one, with one portal.
EdgeSizes == {<<w, h>> : w, h \in 2 .. MaxSide}

InitEdge ==
  /\ InitShared
  /\ size = [m \in Maps |-> RoomSize]
  /\ portals = [m \in Maps |-> <<>>]
  /\ budget = [t \in Threads |-> IF t = 1 THEN 1 ELSE 0]
  /\ before = portals
  /\ pre = portals
  /\ \E sz \in EdgeSizes : room_size = [NewRooms.size EXCEPT ![PrimaryRoom] = sz]
  /\ \E n \in 1 .. 2 :
       /\ n = 2 => ~TooSmallForPortals(room_size[PrimaryRoom])
       /\ num_rooms = n
       /\ room_portals =
            [NewRooms.portals EXCEPT ![PrimaryRoom] = PortalsTo(1 .. (n - 1))]
  /\ pre_rooms = [size |-> room_size, portals |-> room_portals, num |-> num_rooms]

\* gen_with(EdgePortalsGenerator::new(count, placed_room_box_func))
GenWithEdgePortals(t) ==
  /\ pc[t] = "idle"
  /\ budget[t] > 0
  /\ \E g \in EdgePortalsGenerators(0 .. MaxEdgeCount), e \in {"dun_gen", "dun_gen_placed"} :
       /\ IF job[t].gen # "gen_with" THEN TRUE ELSE job[t].entry = e
       /\ job' = [job EXCEPT ![t] =
             [gen |-> "gen_with", root |-> PrimaryRoom, depth |-> 0, entry |-> e]]
       /\ work' = <<Call(g, PrimaryRoom, e, 0)>>
  /\ budget' = [budget EXCEPT ![t] = @ - 1]
  /\ pc' = [pc EXCEPT ![t] = "run"]
  /\ pre_rooms' = [size |-> room_size, portals |-> room_portals, num |-> num_rooms]
  /\ UNCHANGED <<roomVars, applied, mapIdVars, tileVars>>

\* The generators that implement DoesDunGenStatic and DoesDunGenPlacedStatic
\* for boxed rooms, and the entry points of these traits.
StaticGenerators == {"edge_portals", "empty_room"}
StaticEntryPoints ==
  {"dun_gen_static", "dun_gen_map_static", "dun_gen_placed_static",
   "dun_gen_placed_map_static"}

\* The entry point of DoesDunGen / DoesDunGenPlaced a static entry point calls.
StaticEntry(e) ==
  CASE e = "dun_gen_static" -> "dun_gen"
    [] e = "dun_gen_map_static" -> "dun_gen_map"
    [] e = "dun_gen_placed_static" -> "dun_gen_placed"
    [] e = "dun_gen_placed_map_static" -> "dun_gen_placed_map"

\* EdgePortalsDunGen: panic!("No idea how many portals to add.") in each of
\* its four static entry points; EmptyRoomDunGen has no panic.
PanicsStaticallyNever(kind) == FALSE
PanicsStatically(kind) == kind = "edge_portals"

\* DunGen::gen::<T>() (T::dun_gen_static(self)) and the other static entry
\* points of T called on the primary room. EmptyRoomDunGen constructs itself
\* with the area of the room and calls its own entry point; EdgePortalsDunGen
\* panics, which ends the thread.
GenStatic(t) ==
  /\ pc[t] = "idle"
  /\ budget[t] > 0
  /\ \E kind \in StaticGenerators, e \in StaticEntryPoints :
       /\ job' = [job EXCEPT ![t] =
             [gen |-> "gen_static", root |-> PrimaryRoom, depth |-> 0,
              entry |-> e, static |-> kind]]
       /\ work' =
            IF kind = "empty_room"
              THEN <<Call([kind |-> "empty_room", size |-> room_size[PrimaryRoom]],
                          PrimaryRoom, StaticEntry(e), 0)>>
              ELSE <<>>
       /\ pc' = [pc EXCEPT ![t] = IF PanicsStatically(kind) THEN "panic" ELSE "run"]
  /\ budget' = [budget EXCEPT ![t] = @ - 1]
  /\ pre_rooms' = [size |-> room_size, portals |-> room_portals, num |-> num_rooms]
  /\ UNCHANGED <<roomVars, applied, mapIdVars, tileVars>>

NextEdge ==
  \/ \E t \in Threads : GenWithEdgePortals(t)
  \/ \E t \in Threads : RunEdgePortals(t)
  \/ \E t \in Threads : GenStatic(t)
  \/ \E t \in Threads : RunEmptyRoom(t)

SpecEdge == InitEdge /\ [][NextEdge]_vars

NextComb ==
  \/ \E t \in Threads : GenWith(t)
  \/ \E t \in Threads : GenLeafPortalsWith(t)
  \/ \E t \in Threads : RunEmptyRoom(t)
  \/ \E t \in Threads : RunEdgePortals(t)
  \/ \E t \in Threads : RunSequential(t)
  \/ \E t \in Threads : RunIfMapThen(t)
  \/ \E t \in Threads : RunTraversePortals(t)
  \/ \E t \in Threads : RunTraverseThisAndPortals(t)
  \/ \E t \in Threads : RunTraverseThisAndPortalsDunGen(t)
  \/ \E t \in Threads : RunLeafPortals(t)

\* The thread that runs the pipeline keeps running until the call returns.
SpecComb == InitComb /\ [][NextComb]_vars /\ WF_vars(NextComb)

\* ------------------------------------------------------- tile generators
\* ShapeArea::new(position, size), ShapeArea::from(size), and the last column
\* and row of an area.
Area(pos, sz) == [pos |-> pos, size |-> sz]
AreaFrom(sz) == Area(<<0, 0>>, sz)
Right(a) == a.pos[1] + Width(a.size) - 1
Bottom(a) == a.pos[2] + Height(a.size) - 1

\* for y in position.y()..=bottom() { for x in position.x()..=right() { .. } }
AreaCells(a) ==
  {<<x, y>> : x \in a.pos[1] .. Right(a), y \in a.pos[2] .. Bottom(a)}

\* The areas the generators are constructed with: at the origin or one cell
\* inside it, of any width and height up to MaxFillSide, zero included.
Areas ==
  {Area(pos, <<w, h>>) :
     pos \in {<<0, 0>>, <<1, 1>>}, w \in 0 .. MaxFillSide, h \in 0 .. MaxFillSide}

\* map.tile_type_at_local_set(position, tile) for every cell of a set.
TileTypeAtLocalSet(tl, cells, tile) ==
  [p \in GridPositions |-> IF p \in cells THEN tile ELSE tl[p]]

\* The size of a map after these cells were set: a map grows to hold the tiles
\* that are set on it and never shrinks.
Largest(ns) == CHOOSE n \in ns : \A k \in ns : k <= n
SizeWith(sz, cells) ==
  IF cells = {} THEN sz
  ELSE <<Largest({Width(sz)} \cup {c[1] + 1 : c \in cells}),
         Largest({Height(sz)} \cup {c[2] + 1 : c \in cells})>>

\* FillTilesGenerator::dun_gen_map: the area it was given when that has a
\* width or a height, else the area of the map; nothing on a size of zero.
FillAreaAsGiven(g, sz) == g.area
FillArea(g, sz) ==
  IF Width(g.area.size) > 0 \/ Height(g.area.size) > 0 THEN g.area ELSE AreaFrom(sz)
FillCells(g, sz) ==
  IF FillArea(g, sz).size = ZeroSize THEN {} ELSE AreaCells(FillArea(g, sz))

\* FillTilesDunGen::dun_gen_map: nothing when the area has no width or no
\* height.
FillDunGenCells(g) ==
  IF Width(g.area.size) = 0 \/ Height(g.area.size) = 0 THEN {} ELSE AreaCells(g.area)

\* The generators that set tiles.
FillTileTypes == {"Floor", "Wall", "Portal"}
FillTilesGenerators == [kind : {"fill_tiles"}, area : Areas, tile : FillTileTypes]
FillTilesDunGens == [kind : {"fill_tiles_dun_gen"}, area : Areas, tile : FillTileTypes]
EmptyRoomGeneratorsOf == [kind : {"empty_room_generator"}, area : Areas]

\* WalledRoomGenerator::new (dont_replace: &[Some(TileType::Portal)]) and
\* WalledRoomGenerator::with_filter.
DontReplaceOfNew == {"Portal"}
DontReplaceFilters == {DontReplaceOfNew, {}, {"Floor", NoTile}}
WalledRoomGenerators ==
  [kind : {"walled_room"}, area : Areas, dont_replace : DontReplaceFilters]
TileGenerators ==
  FillTilesGenerators \cup FillTilesDunGens \cup EmptyRoomGeneratorsOf
    \cup WalledRoomGenerators

\* gen_with(with) with a generator that sets tiles, on the primary map.
GenWithTiles(t) ==
  /\ pc[t] = "idle"
  /\ budget[t] > 0
  /\ \E g \in TileGenerators :
       /\ job' = [job EXCEPT ![t] =
             [gen |-> "gen_with", root |-> PrimaryRoom, depth |-> 0, entry |-> "dun_gen"]]
       /\ work' = <<Call(g, PrimaryRoom, "dun_gen", 0)>>
  /\ budget' = [budget EXCEPT ![t] = @ - 1]
  /\ pc' = [pc EXCEPT ![t] = "run"]
  /\ pre_rooms' = [size |-> room_size, portals |-> room_portals, num |-> num_rooms]
  /\ pre_tiles' = tiles
  /\ UNCHANGED <<roomVars, applied, tiles, mapIdVars>>

\* The call at the head of `work` sets these cells to this tile and returns.
SetTiles(t, cells, tile) ==
  LET op == Head(work)
      sz == SizeWith(room_size[op.room], cells)
  IN /\ tiles' = TileTypeAtLocalSet(tiles, cells, tile)
     /\ room_size' = [room_size EXCEPT ![op.room] = sz]
     /\ applied' = Append(applied,
          Record(t, op, [size |-> sz, count |-> PortalCount(op.room)]))
     /\ ContinueWith(t, <<>>)
     /\ UNCHANGED <<room_portals, num_rooms>>

\* FillTilesGenerator::dun_gen / dun_gen_map
RunFillTiles(t) ==
  /\ Running(t, "fill_tiles")
  /\ SetTiles(t, FillCells(Head(work).gen, room_size[Head(work).room]),
              Head(work).gen.tile)

\* FillTilesDunGen::dun_gen / dun_gen_map
RunFillTilesDunGen(t) ==
  /\ Running(t, "fill_tiles_dun_gen")
  /\ SetTiles(t, FillDunGenCells(Head(work).gen), Head(work).gen.tile)

\* EmptyRoomGenerator: self.forward_to.dun_gen(target), forward_to being
\* FillTilesGenerator::new(provides_placed_shape, TileType::Floor).
ForwardTo(g) == [kind |-> "fill_tiles", area |-> g.area, tile |-> "Floor"]
RunEmptyRoomGenerator(t) ==
  /\ Running(t, "empty_room_generator")
  /\ LET op == Head(work)
     IN /\ Enter(t, op)
        /\ Continue(t, <<Call(ForwardTo(op.gen), op.room, op.entry, 0)>>)

\* The cells the four loops of WalledRoomGenerator::dun_gen_map visit: the
\* top row is row 0 and the left column is column 0, the right column and
\* the bottom row are those of the area.
WalledRoomArea(g, sz) ==
  IF Width(g.area.size) > 0 \/ Height(g.area.size) > 0 THEN g.area ELSE AreaFrom(sz)
WallCells(a) ==
  {<<x, 0>> : x \in a.pos[1] .. Right(a)}
    \cup {<<0, y>> : y \in a.pos[2] .. Bottom(a)}
    \cup {<<Right(a), y>> : y \in a.pos[2] .. Bottom(a)}
    \cup {<<x, Bottom(a)>> : x \in a.pos[1] .. Right(a)}

\* self.dont_replace.contains(&map.tile_type_at_local(position))
DontReplaceNothing(g, tile) == FALSE
DontReplace(g, tile) == tile \in g.dont_replace

\* SupportsDunGen::get_map_id of the pipeline a generator is applied to.
TargetMapIdOfPrimary(t) == PrimaryRoom
TargetMapId(t) == job[t].root

\* The map a call works on: dun_gen(target) takes it from the target
\* (let map_id = target.get_map_id()), dun_gen_map(map_id) is given it.
MapOf(t, op) == IF op.entry = "dun_gen" THEN TargetMapId(t) ELSE op.room

\* WalledRoomGenerator::dun_gen / dun_gen_map
RunWalledRoom(t) ==
  /\ Running(t, "walled_room")
  /\ LET g == Head(work).gen
         a == WalledRoomArea(g, room_size[MapOf(t, Head(work))])
         cells == IF a.size = ZeroSize THEN {}
                  ELSE {c \in WallCells(a) : ~DontReplace(g, tiles[c])}
     IN SetTiles(t, cells, "Wall")

\* A new map, on which generators that set tiles are applied one after the
\* other.
InitFill ==
  /\ InitControl
  /\ size = [m \in Maps |-> ZeroSize]
  /\ portals = [m \in Maps |-> <<>>]
  /\ before = portals
  /\ pre = portals
  /\ budget = [t \in Threads |-> IF t = 1 THEN MaxJobs ELSE 0]

NextFill ==
  \/ \E t \in Threads : GenWithTiles(t)
  \/ \E t \in Threads : RunFillTiles(t)
  \/ \E t \in Threads : RunFillTilesDunGen(t)
  \/ \E t \in Threads : RunEmptyRoomGenerator(t)
  \/ \E t \in Threads : RunWalledRoom(t)

SpecFill == InitFill /\ [][NextFill]_vars

\* ------------------------------------------ the two entry points on MapIds
\* The entry points of DoesDunGen.
EntryPoints == {"dun_gen", "dun_gen_map"}

\* The generators on MapIds that are applied through either entry point.
EntrySubMapGenerators ==
  {g \in SubMapGenerators :
     /\ Len(g.sets) = 1
     /\ g.sets[1].count = 1
     /\ ~g.sets[1].validity_check
     /\ ~g.sets[1].sub_maps_generators /\ ~g.global_sub_map_generators
     /\ ~g.validity_check}
EntryLeaves ==
  {[kind |-> "reciprocate"], [kind |-> "visit_map_once"]}
    \cup [kind : {"merge"}, recursion_depth : 0 .. 2, portal_filter : PortalFilters]
    \cup [kind : {"sub_map"}, smg : EntrySubMapGenerators]
EntryWalledRooms ==
  [kind : {"walled_room"}, area : {Area(<<0, 0>>, RoomSize)},
   dont_replace : {DontReplaceOfNew}]
EntrySequenced ==
  {[kind |-> "reciprocate"], [kind |-> "visit_map_once"],
   [kind |-> "merge", recursion_depth |-> 1, portal_filter |-> "all"]}
EntrySequentials ==
  {[kind |-> "sequential", dun_gens |-> l] :
     l \in UNION {[1 .. n -> EntrySequenced] : n \in 1 .. MaxSeqLen}}
EntryGenerators == EntryLeaves \cup EntryWalledRooms \cup EntrySequentials

\* with.dun_gen(target) on a pipeline whose map is m, or with.dun_gen_map(m).
\* The tiles of the model are those of the pipeline's primary map.
EntryCall(t) ==
  /\ pc[t] = "idle"
  /\ budget[t] > 0
  /\ \E g \in EntryGenerators, m \in Maps, e \in EntryPoints :
       /\ g.kind = "walled_room" => m = PipelineMap
       /\ job' = [job EXCEPT ![t] =
             [gen |-> "entry", root |-> m, depth |-> 0, entry |-> e]]
       /\ work' = <<Call(g, m, e, 0)>>
  /\ budget' = [budget EXCEPT ![t] = @ - 1]
  /\ pc' = [pc EXCEPT ![t] = "run"]
  /\ pre' = portals
  /\ pre_subs' = sub_maps
  /\ pre_tiles' = tiles
  /\ pre_rooms' = [size |-> room_size, portals |-> room_portals, num |-> num_rooms]
  /\ UNCHANGED <<storeVars, guardVars, recipVars, stack, cur, entry, sub_maps,
                 mergeVars, placeVars, roomVars, applied, tiles>>

\* The call at the head of `work` is made: its body starts at `start`, on
\* the map its entry point works on.
StartBody(t, start) ==
  LET op == Head(work)
      m == MapOf(t, op)
  IN /\ cur' = [cur EXCEPT ![t] = m]
     /\ entry' = [entry EXCEPT ![t] = op.entry]
     /\ applied' = Append(applied, Record(t, [op EXCEPT !.room = m], Seen(m)))
     /\ work' = Tail(work)
     /\ pc' = [pc EXCEPT ![t] = start]
     /\ UNCHANGED <<storeVars, stack, budget, job, pre, sub_maps, pre_subs,
                    roomVars, pre_rooms, tileVars>>

\* ReciprocatePortalsGenerator::dun_gen, and the call of dun_gen_map.
RunReciprocate(t) ==
  /\ Running(t, "reciprocate")
  /\ StartBody(t, "r_call")
  /\ UNCHANGED <<guardVars, recipVars, mergeVars, placeVars>>

\* MergePortalMapsAsSubMapsGenerator::new(recursion_depth, portal_filter),
\* its dun_gen, and the call of dun_gen_map.
RunMerge(t) ==
  /\ Running(t, "merge")
  /\ StartBody(t, "m_call")
  /\ recursion_depth' = Head(work).gen.recursion_depth
  /\ portal_filter' = Head(work).gen.portal_filter
  /\ mvisited' = {}
  /\ on_maps' = <<>>
  /\ found' = <<>>
  /\ UNCHANGED <<guardVars, recipVars, mvlock, placeVars>>

\* SubMapGenerator::dun_gen, and the call of dun_gen_map.
RunSubMap(t) ==
  /\ Running(t, "sub_map")
  /\ StartBody(t, "s_set")
  /\ smg' = Head(work).gen.smg
  /\ set_i' = 1
  /\ placed' = 0
  /\ candidates' = <<>>
  /\ UNCHANGED <<guardVars, recipVars, mergeVars, invalid, num_maps, sm_panicked>>

\* VisitMapOnceGenerator::dun_gen and dun_gen_map, up to the write lock.
RunVisitMapOnce(t) ==
  /\ Running(t, "visit_map_once")
  /\ StartBody(t, "v_lock")
  /\ offers' = [offers EXCEPT ![MapOf(t, Head(work))] = @ + 1]
  /\ fresh' = [fresh EXCEPT ![t] = MapOf(t, Head(work)) \notin visited]
  /\ ran' = [ran EXCEPT ![t] = FALSE]
  /\ UNCHANGED <<visited, vlock, gcount, recipVars, mergeVars, placeVars>>

\* A store with any portal graph, and a new primary room.
InitEntry ==
  /\ InitControl
  /\ size = [m \in Maps |-> RoomSize]
  /\ \E es \in InitEdgeSeqs : portals = GraphOf(es)
  /\ before = portals
  /\ pre = portals
  /\ budget = [t \in Threads |-> IF t = 1 THEN 1 ELSE 0]

NextEntry ==
  \/ \E t \in Threads : EntryCall(t)
  \/ \E t \in Threads : RunSequential(t)
  \/ \E t \in Threads : RunReciprocate(t)
  \/ \E t \in Threads : RLockMap(t)
  \/ \E t \in Threads : RPortal(t)
  \/ \E t \in Threads : RunMerge(t)
  \/ \E t \in Threads : MEnter(t)
  \/ \E t \in Threads : MLoop(t)
  \/ \E t \in Threads : RunSubMap(t)
  \/ \E t \in Threads : SSet(t)
  \/ \E t \in Threads : STry(t)
  \/ \E t \in Threads : SAdd(t)
  \/ \E t \in Threads : RunVisitMapOnce(t)
  \/ \E t \in Threads : VLock(t)
  \/ \E t \in Threads : VCheck(t)
  \/ \E t \in Threads : VInsert(t)
  \/ \E t \in Threads : VInner(t)
  \/ \E t \in Threads : RunWalledRoom(t)

SpecEntry == InitEntry /\ [][NextEntry]_vars

\* ------------------------------------- one merge generator applied again
\* The visited set of a generator that is applied again: the field of the
\* instance as the calls before left it, where a new instance has an empty
\* one.
VisitedOfNew(v) == {}
VisitedOfInstance(v) == v

\* dun_gen of a MergePortalMapsAsSubMapsGenerator that has been applied
\* before: the same recursion_depth, portal_filter and visited, on any map.
\* The job records the root of the call before.
MergeAgain(t) ==
  /\ pc[t] = "idle"
  /\ budget[t] > 0
  /\ job[t].gen = "merge"
  /\ \E m \in Maps :
       /\ cur' = [cur EXCEPT ![t] = m]
       /\ job' = [job EXCEPT ![t] = [gen |-> "merge", root |-> m,
                                     depth |-> recursion_depth,
                                     prev |-> job[t].root]]
  /\ mvisited' = VisitedOfInstance(mvisited)
  /\ on_maps' = <<>>
  /\ entry' = [entry EXCEPT ![t] = "dun_gen"]
  /\ budget' = [budget EXCEPT ![t] = @ - 1]
  /\ pc' = [pc EXCEPT ![t] = "m_call"]
  /\ pre' = portals
  /\ pre_subs' = sub_maps
  /\ UNCHANGED <<storeVars, guardVars, stack, recipVars, sub_maps, mvlock,
                 recursion_depth, portal_filter, found, placeVars>>
  /\ UNCHANGED combVars

\* One thread applies merge generators twice: a new one each time, or the
\* same one again.
InitMergeTwice ==
  /\ InitControl
  /\ size = [m \in Maps |-> RoomSize]
  /\ \E n \in 0 .. MaxMergePortals :
       \E es \in [1 .. n -> InitEdges] : portals = GraphOf(es)
  /\ budget = [t \in Threads |-> IF t = 1 THEN MaxCalls ELSE 0]
  /\ before = portals
  /\ pre = portals

NextMergeTwice ==
  \/ \E t \in Threads : MergeCall(t)
  \/ \E t \in Threads : MergeAgain(t)
  \/ \E t \in Threads : MEnter(t)
  \/ \E t \in Threads : MLoop(t)

SpecMergeTwice == InitMergeTwice /\ [][NextMergeTwice]_vars

\* ------------------------------------- sequences of generator applications
\* A store with at most one portal, and two applications.
InitGrow ==
  /\ InitControl
  /\ size = [m \in Maps |-> RoomSize]
  /\ \E es \in [1 .. 1 -> InitEdges] \cup {<<>>} : portals = GraphOf(es)
  /\ before = portals
  /\ pre = portals
  /\ budget = [t \in Threads |-> IF t = 1 THEN MaxJobs ELSE 0]

\* Generators that work on MapIds, applied one after the other through either
\* entry point, in any order.
SpecGrow == InitGrow /\ [][NextEntry]_vars

\* ------------------------------------- re-entrant calls of the guard
\* The wrapped generator of a VisitMapOnceGenerator, while it runs, calls the
\* same guard instance again, on any map and through either entry point; the
\* call in progress goes on when the inner call has returned. The thread
\* makes at most MaxCalls such calls, at most MaxDepth deep.
Wrapped_resume == [kind |-> "wrapped"]
VReenter(t) ==
  /\ pc[t] = "v_inner"
  /\ budget[t] > 0
  /\ Len(work) < MaxDepth
  /\ \E m \in Maps, e \in EntryPoints :
       /\ cur' = [cur EXCEPT ![t] = m]
       /\ entry' = [entry EXCEPT ![t] = e]
       /\ offers' = [offers EXCEPT ![m] = @ + 1]
       /\ fresh' = [fresh EXCEPT ![t] = m \notin visited]
  /\ work' = <<Call(Wrapped_resume, cur[t], entry[t], 0)>> \o work
  /\ budget' = [budget EXCEPT ![t] = @ - 1]
  /\ pc' = [pc EXCEPT ![t] = "v_lock"]
  /\ ran' = [ran EXCEPT ![t] = FALSE]
  /\ UNCHANGED <<storeVars, visited, vlock, gcount, stack, job, pre, recipVars,
                 sub_maps, pre_subs, mergeVars, placeVars, roomVars, applied,
                 pre_rooms, tileVars>>

\* The inner call has returned: the wrapped generator of the call in
\* progress goes on.
VResume(t) ==
  /\ Running(t, "wrapped")
  /\ cur' = [cur EXCEPT ![t] = Head(work).room]
  /\ entry' = [entry EXCEPT ![t] = Head(work).entry]
  /\ work' = Tail(work)
  /\ pc' = [pc EXCEPT ![t] = "v_inner"]
  /\ UNCHANGED <<storeVars, guardVars, stack, budget, job, pre, recipVars,
                 sub_maps, pre_subs, mergeVars, placeVars, roomVars, applied,
                 pre_rooms, tileVars>>

\* One thread applies one guard instance.
InitReenter ==
  /\ InitControl
  /\ size = [m \in Maps |-> RoomSize]
  /\ portals = [m \in Maps |-> <<>>]
  /\ budget = [t \in Threads |-> IF t = 1 THEN MaxCalls + MaxDepth ELSE 0]
  /\ before = portals
  /\ pre = portals

NextReenter ==
  \/ \E t \in Threads : VCall(t)
  \/ \E t \in Threads : VLock(t)
  \/ \E t \in Threads : VCheck(t)
  \/ \E t \in Threads : VInsert(t)
  \/ \E t \in Threads : VInner(t)
  \/ \E t \in Threads : VReenter(t)
  \/ \E t \in Threads : VResume(t)

SpecReenter == InitReenter /\ [][NextReenter]_vars

\* ------------------------------------------------ degenerate maps and rooms
\* Sizes below the 3-tile minimum: a new map, and a map too narrow.
DegenerateSizes == {ZeroSize, <<2, 3>>}

\* The primary rooms EdgePortalsGenerator is given: a new room, a room too
\* narrow, and the smallest room that has edge cells other than corners.
DegenerateRoomSizes == {ZeroSize, <<2, 4>>, <<MinEdge, MinEdge>>}

\* A store in which the pipeline's map owns no portal or one, whatever its
\* size (Map::add_portal puts a portal on a map of any size), every map being
\* of a degenerate size or of the size of a room.
InitDegenerate ==
  /\ InitShared
  /\ \E es \in [1 .. 1 -> InitEdges] \cup {<<>>} :
       /\ \A i \in 1 .. Len(es) : es[i].owner = PipelineMap
       /\ portals = GraphOf(es)
  /\ size \in [Maps -> DegenerateSizes \cup {RoomSize}]
  /\ before = portals
  /\ pre = portals
  /\ budget = [t \in Threads |-> IF t = 1 THEN MaxJobs ELSE 0]
  /\ \E sz \in DegenerateRoomSizes :
       room_size = [NewRooms.size EXCEPT ![PrimaryRoom] = sz]
  /\ room_portals = NewRooms.portals
  /\ num_rooms = NewRooms.num
  /\ pre_rooms = [size |-> room_size, portals |-> room_portals, num |-> num_rooms]

\* gen_with(ReciprocatePortalsGenerator::new()) on a map of the store and
\* gen_with(EdgePortalsGenerator::new(..)) on the boxed room, in any order.
NextDegenerate ==
  \/ \E t \in Threads : RecipCallPlain(t)
  \/ \E t \in Threads : TravStep(t)
  \/ \E t \in Threads : RLockMap(t)
  \/ \E t \in Threads : RPortal(t)
  \/ \E t \in Threads : GenWithEdgePortals(t)
  \/ \E t \in Threads : RunEdgePortals(t)

SpecDegenerate == InitDegenerate /\ [][NextDegenerate]_vars

\* ------------------------------------------------------------------ claims

\* C1: for one guard instance, after any sequence of invocations through
\* dun_gen or dun_gen_map, G has run exactly once on every MapId that was
\* offered and never a second time, however often the MapId recurs.
VisitOnceExactlyOncePerMap ==
  /\ \A m \in Maps : gcount[m] <= 1
  /\ AllIdle => \A m \in Maps : gcount[m] = (IF offers[m] > 0 THEN 1 ELSE 0)

\* A map offered three times through both entry points, another offered once.
VisitOnceWitness ==
  /\ AllIdle
  /\ \E m, n \in Maps :
       /\ m # n
       /\ offers[m] >= 3 /\ gcount[m] = 1
       /\ offers[n] = 1 /\ gcount[n] = 1
  /\ entry[1] # entry[2]

\* C2: when two threads invoke the same guard concurrently with the same
\* MapId, the membership test and the insertion are one critical section, and
\* exactly one of the two invocations runs G.
InGuardSection(t) == pc[t] \in {"v_check", "v_insert"}
VisitOnceAtomicCheckAndInsert ==
  /\ ~(InGuardSection(1) /\ InGuardSection(2))
  /\ \A t \in Threads : InGuardSection(t) => vlock = t
  /\ (AllIdle /\ fresh[1] /\ fresh[2] /\ cur[1] = cur[2]
        /\ job[1].gen = "visit" /\ job[2].gen = "visit")
       => (ran[1] # ran[2])

\* Both threads started on the same unvisited map before either inserted it.
VisitOnceConcurrentWitness ==
  /\ AllIdle
  /\ fresh[1] /\ fresh[2] /\ cur[1] = cur[2]
  /\ job[1].gen = "visit" /\ job[2].gen = "visit"
  /\ ran[2] /\ ~ran[1]
  /\ gcount[cur[1]] = 1

\* C3: on a cycle of k maps, TraverseThisAndPortals(VisitOnce(G)) applied
\* transitively (nested deep enough to reach every map of the cycle, from any
\* map of it) terminates, and G has then run on each of the k maps exactly once.
TravDone == AllIdle /\ budget[1] = 0
CycleVisitedOnce ==
  /\ \A m \in Maps : gcount[m] <= 1
  /\ job[1].depth >= CycleLen - 1 => \A m \in Maps : m < CycleLen => gcount[m] = 1
TraverseCycleTerminatesVisitingOnce == <>(TravDone /\ CycleVisitedOnce)

\* The longest cycle, traversed deep enough to come back to where it started.
TraverseCycleWitness ==
  /\ TravDone
  /\ CycleLen = NumMaps
  /\ job[1].depth >= CycleLen
  /\ \A m \in Maps : gcount[m] = 1
  /\ \E m \in Maps : offers[m] >= 2

\* The reciprocation run that returned last, in the sequential runs.
AfterRun == hist # <<>> /\ pc[1] \in {"idle", "trav"}
LastRun == hist[Len(hist)]
MatchesOf(p, b) == {j \in 1 .. Len(portals[b]) : portals[b][j].ptmp = p.lp}

\* C4: for every portal P on map A (local position p) whose target is map B,
\* after the generator has run on A (A and B both at least 3x3), B has exactly
\* one portal Q with Q.portal_to_map_position = p, and
\* P.portal_to_map_position = Q.local_position. (B is another map than A: a
\* run on a map with a portal to itself is the subject of C6.)
ReciprocationRoundTrip ==
  AfterRun =>
    (~IsDegenerate(size[LastRun]) =>
       \A i \in 1 .. Len(portals[LastRun]) :
         LET p == portals[LastRun][i]
             b == p.target
         IN (b # LastRun /\ ~IsDegenerate(size[b])) =>
              /\ Cardinality(MatchesOf(p, b)) = 1
              /\ \A j \in MatchesOf(p, b) : p.ptmp = portals[b][j].lp)

\* C5: running the generator a second time on the same map is a no-op: it adds
\* no portal to any map and changes no portal field.
SecondRunOnSameMap ==
  /\ AfterRun
  /\ Len(hist) >= 2
  /\ hist[Len(hist)] = hist[Len(hist) - 1]
SecondReciprocationIsNoOp == SecondRunOnSameMap => portals = before

\* The first of the two runs added a return portal: only those have a
\* portal_to_map_position on an edge.
SecondReciprocationWitness ==
  /\ SecondRunOnSameMap
  /\ Len(hist) = 2
  /\ \E i \in 1 .. Len(portals[LastRun]) :
       LET p == portals[LastRun][i]
       IN /\ p.target # LastRun
          /\ \E j \in MatchesOf(p, p.target) :
               /\ portals[p.target][j].target = LastRun
               /\ portals[p.target][j].lp = p.ptmp

\* C6: applied to a map A with a portal whose target is A itself, the generator
\* never tries to take a second lock on A while it holds the write lock on A,
\* so the run terminates instead of deadlocking.
NoSecondLockOnOwnMap ==
  \A t \in Threads :
    pc[t] = "r_wait" => wlock[portals[cur[t]][ri[t]].target] # t

\* C7: two threads that run the generator at the same time, one on A and one
\* on B, where A has a portal to B and B a portal to A, both complete: no
\* interleaving has each thread holding the write lock on its own map and
\* waiting for the other's.
NoCrossedLockWait ==
  ~(/\ pc[1] = "r_wait"
    /\ pc[2] = "r_wait"
    /\ wlock[portals[cur[1]][ri[1]].target] = 2
    /\ wlock[portals[cur[2]][ri[2]].target] = 1)

\* C8: after TraverseThisAndPortals(ReciprocatePortalsGenerator) on a root
\* whose n portals lead to n distinct maps of at least 3x3 that had no portals,
\* the root still has exactly n portals and every target has exactly one.
TravRecipDone ==
  /\ pc[1] = "idle"
  /\ job[1].gen = "recip"
  /\ job[1].depth = 1
RootTargets == {pre[job[1].root][i].target : i \in 1 .. Len(pre[job[1].root])}
FreshTargets ==
  /\ Cardinality(RootTargets) = Len(pre[job[1].root])
  /\ \A b \in RootTargets : ~IsDegenerate(size[b]) /\ pre[b] = <<>>
DeclinesDegenerateTarget ==
  /\ ~panicked
  /\ AfterRun =>
       \A i \in 1 .. Len(before[LastRun]) :
         LET b == before[LastRun][i].target
         IN IsDegenerate(size[b]) =>
              /\ portals[LastRun][i].ptmp = before[LastRun][i].ptmp
              /\ portals[b] = before[b]

\* The run gave its first portal a return portal and declined for the second.
DeclinesDegenerateWitness ==
  /\ AfterRun
  /\ Len(before[LastRun]) = 2
  /\ IsDegenerate(size[before[LastRun][2].target])
  /\ ~IsDegenerate(size[before[LastRun][1].target])
  /\ portals[LastRun][1].ptmp # before[LastRun][1].ptmp
  /\ portals[LastRun][2] = before[LastRun][2]

\* C10: the generator handles every outgoing portal of the map: each portal
\* whose target is at least 3x3 and has no matching return portal gets one,
\* also when a portal earlier in the list has a degenerate target.
ReciprocatesEveryPortal ==
  AfterRun =>
    (~IsDegenerate(size[LastRun]) =>
       \A i \in 1 .. Len(portals[LastRun]) :
         LET p == portals[LastRun][i]
         IN (p.target # LastRun /\ ~IsDegenerate(size[p.target])) =>
              MatchesOf(p, p.target) # {})

\* C11: after the generator has run on map A (A and all its portal targets at
\* least 3x3), every portal P of A with target B has a return portal on B whose
\* target is A and whose portal_to_map_position is P.local_position.
AllTargetsLarge(a) ==
  \A i \in 1 .. Len(portals[a]) : ~IsDegenerate(size[portals[a][i].target])
ReturnPortalsOf(p, a) ==
  {j \in MatchesOf(p, p.target) : portals[p.target][j].target = a}
ReturnPortalLeadsBack ==
  AfterRun =>
    ((~IsDegenerate(size[LastRun]) /\ AllTargetsLarge(LastRun)) =>
       \A i \in 1 .. Len(portals[LastRun]) :
         ReturnPortalsOf(portals[LastRun][i], LastRun) # {})

\* The merge pass of the generator that was applied last, and what it added
\* to the sub-map list of the map it was applied to.
MergeRoot == job[1].root
MergeStarted == job[1].gen = "merge"
MergeDone == MergeStarted /\ pc[1] = "idle" /\ on_maps = <<>>
Added ==
  SubSeq(sub_maps[MergeRoot], Len(pre_subs[MergeRoot]) + 1, Len(sub_maps[MergeRoot]))
AddedMaps == {Added[j].map : j \in 1 .. Len(Added)}
HopOffset(p) == <<p.lp[1] - p.ptmp[1], p.lp[2] - p.ptmp[2]>>

\* C12 as stated: for a portal on root A with local_position (lx, ly) and
\* portal_to_map_position (tx, ty) targeting B, the merge with recursion depth
\* >= 1 and a filter that accepts the portal adds to A a sub-map entry for B at
\* offset (lx - tx, ly - ty).
MergeOffsetOfEveryPortal ==
  (MergeDone /\ recursion_depth >= 1) =>
    \A i \in 1 .. Len(portals[MergeRoot]) :
      LET p == portals[MergeRoot][i]
      IN PortalFilter(portal_filter, p) =>
           \E j \in 1 .. Len(Added) : Added[j] = SubMap(HopOffset(p), p.target)

\* C12, amended: the same for every such portal whose target B is another map
\* than A and is not the target of an accepted portal earlier in A's list (the
\* portal by which B is first visited).
FirstPortalTo(i) ==
  LET p == portals[MergeRoot][i]
  IN /\ PortalFilter(portal_filter, p)
     /\ p.target # MergeRoot
     /\ \A h \in 1 .. (i - 1) :
          ~(PortalFilter(portal_filter, portals[MergeRoot][h])
            /\ portals[MergeRoot][h].target = p.target)
MergeOffsetOfFirstPortal ==
  (MergeDone /\ recursion_depth >= 1) =>
    \A i \in 1 .. Len(portals[MergeRoot]) :
      FirstPortalTo(i) =>
        \E j \in 1 .. Len(Added) :
          Added[j] = SubMap(HopOffset(portals[MergeRoot][i]),
                            portals[MergeRoot][i].target)

\* Two portals to the same map with different offsets: the entry has the
\* offset of the first.
MergeOffsetWitness ==
  /\ MergeDone
  /\ recursion_depth >= 1
  /\ Len(portals[MergeRoot]) >= 2
  /\ FirstPortalTo(1)
  /\ portals[MergeRoot][2].target = portals[MergeRoot][1].target
  /\ HopOffset(portals[MergeRoot][1]) = <<-3, 0>>
  /\ HopOffset(portals[MergeRoot][2]) = <<1, 0>>
  /\ Added = <<SubMap(<<-3, 0>>, portals[MergeRoot][1].target)>>

\* C13: the entry added for a map reached over several hops has the sum of the
\* hop offsets (local_position minus portal_to_map_position of each portal)
\* along the path by which the map was first reached; for A -> B -> C that is
\* the offset of the A -> B hop plus the offset of the B -> C hop.
FoundAt(m) == CHOOSE j \in 1 .. Len(found) : found[j].map = m
RECURSIVE PathOffset(_)
PathOffset(j) ==
  LET hop == HopOffset(portals[found[j].from][found[j].index])
  IN IF found[j].from = MergeRoot
       THEN hop
       ELSE LET up == PathOffset(FoundAt(found[j].from))
            IN <<up[1] + hop[1], up[2] + hop[2]>>
MergeAddsEachMapOnce ==
  MergeStarted =>
    /\ \A j, k \in 1 .. Len(Added) : Added[j].map = Added[k].map => j = k
    /\ MergeRoot \notin AddedMaps

\* The root has two portals to the same map, which has a portal back to the
\* root and one to itself.
MergeAddsOnceWitness ==
  /\ MergeDone
  /\ recursion_depth >= 2
  /\ Len(Added) = 1
  /\ Len(portals[MergeRoot]) = 2
  /\ \A i \in 1 .. 2 : portals[MergeRoot][i].target = Added[1].map
  /\ \E i \in 1 .. Len(portals[Added[1].map]) :
       portals[Added[1].map][i].target = MergeRoot

\* C15: the generator terminates on every portal graph, cycles and self-loops
\* included, for every recursion depth: its work queue becomes empty, and it
\* never tries to lock the map it was applied to a second time.
MergeLocksRootAgain ==
  /\ pc[1] = "m_loop"
  /\ on_maps # <<>>
  /\ Head(on_maps).depth # 0
  /\ Head(on_maps).map = MergeRoot
MergeTerminates == [](~MergeLocksRootAgain) /\ <>MergeDone

\* A finished merge of depth 3 on a root with a portal to itself and a cycle
\* through another map.
MergeTerminatesWitness ==
  /\ MergeDone
  /\ recursion_depth = MaxDepth
  /\ \E i \in 1 .. Len(portals[MergeRoot]) : portals[MergeRoot][i].target = MergeRoot
  /\ \E m \in AddedMaps :
       \E i \in 1 .. Len(portals[m]) : portals[m][i].target = MergeRoot

\* C16: with recursion depth d and portal filter f the maps added as sub-maps
\* of the root are exactly the maps other than the root that are reachable
\* from the root in at most d hops over portals accepted by f; with d = 0
\* nothing is added.
RECURSIVE ReachableWithin(_)
ReachableWithin(d) ==
  IF d = 0
    THEN {MergeRoot}
    ELSE LET r == ReachableWithin(d - 1)
         IN r \cup {n \in Maps :
                      \E m \in r : \E i \in 1 .. Len(portals[m]) :
                        /\ portals[m][i].target = n
                        /\ (portal_filter = "south" => portals[m][i].facing = "South")}
MergeKeepsPortalGraph ==
  MergeStarted =>
    /\ portals = pre
    /\ size = [m \in Maps |-> RoomSize]
    /\ \A m \in Maps : m # MergeRoot => sub_maps[m] = pre_subs[m]
    /\ SubSeq(sub_maps[MergeRoot], 1, Len(pre_subs[MergeRoot])) = pre_subs[MergeRoot]

\* A merge over two hops that added two maps to the root.
MergeKeepsGraphWitness ==
  /\ MergeDone
  /\ Len(Added) = 2
  /\ found[2].from = Added[1].map
  /\ portals = pre
  /\ \A m \in Maps : m # MergeRoot => sub_maps[m] = <<>>

\* The run of the SubMapGenerator that was applied last, and the entries it
\* added to the sub-map list of the parent.
PlaceStarted == job[1].gen = "sub_map"
PlaceDone == PlaceStarted /\ pc[1] = "idle"
Embedded ==
  SubSeq(sub_maps[PipelineMap], Len(pre_subs[PipelineMap]) + 1,
         Len(sub_maps[PipelineMap]))
CandidateOf(m) == CHOOSE j \in 1 .. Len(candidates) : candidates[j].id = m

\* C18: with one validity predicate that rejects the first k candidates and
\* accepts the (k+1)th, the generator with count 1 invalidates exactly those k
\* candidates, retries exactly k times, and then embeds exactly one sub-map,
\* the (k+1)th candidate. The predicate is the check of the set, the global
\* check, or both of them returning the same for every candidate.
OnePredicateCountOne ==
  /\ Len(smg.sets) = 1
  /\ smg.sets[1].count = 1
  /\ smg.sets[1].validity_check \/ smg.validity_check
  /\ (smg.sets[1].validity_check /\ smg.validity_check) =>
       \A j \in 1 .. Len(candidates) : candidates[j].set_ok = candidates[j].global_ok
RejectedCandidates ==
  {j \in 1 .. Len(candidates) : ~(candidates[j].set_ok /\ candidates[j].global_ok)}
RetriesUntilFirstValid ==
  (PlaceDone /\ OnePredicateCountOne) =>
    LET k == Cardinality(RejectedCandidates)
    IN /\ RejectedCandidates = 1 .. k
       /\ Len(candidates) = k + 1
       /\ invalid = {candidates[j].id : j \in 1 .. k}
       /\ Embedded = <<SubMap(candidates[k + 1].position, candidates[k + 1].id)>>

\* Two candidates rejected by the check of the set, the third embedded.
RetriesWitness ==
  /\ PlaceDone
  /\ OnePredicateCountOne
  /\ ~smg.validity_check
  /\ ~candidates[1].set_ok /\ ~candidates[2].set_ok
  /\ Cardinality(invalid) = 2
  /\ Len(candidates) = 3
  /\ Len(Embedded) = 1
  /\ Embedded[1].map = candidates[3].id

\* C19: no candidate that was passed to invalidate_map is ever embedded: every
\* entry the generator adds to the parent's sub-map list names a map that was
\* never invalidated, whatever validity checks the set and the generator have.
NeverEmbedsInvalidated ==
  PlaceStarted => \A j \in 1 .. Len(Embedded) : Embedded[j].map \notin invalid

\* C20: when the generator has a global validity check, every sub-map it
\* embeds satisfies that check at the position it is embedded at, also when
\* the set that produced it has a validity check of its own.
EmbeddedSatisfyGlobalCheck ==
  (PlaceStarted /\ smg.validity_check) =>
    \A j \in 1 .. Len(Embedded) :
      /\ candidates[CandidateOf(Embedded[j].map)].position = Embedded[j].pos
      /\ candidates[CandidateOf(Embedded[j].map)].global_ok

\* What the count providers of the first i sets returned, added up.
RECURSIVE CountSum(_)
CountSum(i) == IF i = 0 THEN 0 ELSE smg.sets[i].count + CountSum(i - 1)

\* C21: when SubMapGenerator returns, the sub-map list of the parent map has
\* gained exactly as many entries as the count providers of all the generator
\* sets returned together, and no other map has gained a sub-map.
SubMapAddsSumOfCounts ==
  PlaceDone =>
    /\ Len(Embedded) = CountSum(Len(smg.sets))
    /\ \A m \in Maps : m # PipelineMap => sub_maps[m] = pre_subs[m]

\* Two sets with counts 2 and 1: three sub-maps in the parent on return.
SubMapSumWitness ==
  /\ PlaceDone
  /\ Len(smg.sets) = 2
  /\ smg.sets[1].count = 2 /\ smg.sets[2].count = 1
  /\ Len(Embedded) = 3

\* Every candidate generated so far was given to at least one validity check,
\* and every check it was given to rejected it.
ChecksOf(j) ==
  [set |-> smg.sets[candidates[j].set].validity_check, global |-> smg.validity_check]
EveryCandidateRejected ==
  \A j \in 1 .. Len(candidates) :
    /\ ChecksOf(j).set \/ ChecksOf(j).global
    /\ ChecksOf(j).set => ~candidates[j].set_ok
    /\ ChecksOf(j).global => ~candidates[j].global_ok
SomeCountPositive == \E i \in 1 .. Len(smg.sets) : smg.sets[i].count >= 1
EverySetProvidesMap ==
  \A i \in 1 .. Len(smg.sets) : smg.sets[i].provides_map \/ smg.fallback_map_provider

\* C22: with a validity predicate that rejects every candidate, a count of at
\* least 1 and a map provider for every set, SubMapGenerator never returns and
\* never embeds a sub-map: as long as every candidate was rejected, the run is
\* still in its loops and the parent's sub-map list is as it was.
NeverReturnsWhenAllRejected ==
  (PlaceStarted /\ SomeCountPositive /\ EverySetProvidesMap /\ EveryCandidateRejected) =>
    /\ ~PlaceDone
    /\ Embedded = <<>>
    /\ pc[1] \in {"s_set", "s_try"}

\* As many rejected candidates as the model generates, the loop still running.
NeverReturnsWitness ==
  /\ PlaceStarted
  /\ SomeCountPositive
  /\ EverySetProvidesMap
  /\ EveryCandidateRejected
  /\ Len(candidates) = MaxCandidates
  /\ Cardinality(invalid) = MaxCandidates
  /\ pc[1] = "s_try"
  /\ Embedded = <<>>

NoChecks ==
  /\ ~smg.validity_check
  /\ \A i \in 1 .. Len(smg.sets) : ~smg.sets[i].validity_check

\* C23: with neither a per-set nor a global validity predicate the generator
\* embeds the first candidate of every slot: every candidate it generates is
\* embedded in the order generated, nothing is invalidated, and when it returns
\* the map provider was called exactly as often as the counts add up to.
EmbedsFirstCandidateWithoutChecks ==
  (PlaceStarted /\ NoChecks) =>
    /\ invalid = {}
    /\ \A j \in 1 .. Len(candidates) : candidates[j].invalidate_calls = 0
    /\ Len(candidates) = Len(Embedded) + (IF pc[1] = "s_add" THEN 1 ELSE 0)
    /\ \A j \in 1 .. Len(Embedded) :
         Embedded[j] = SubMap(candidates[j].position, candidates[j].id)
    /\ PlaceDone => Len(candidates) = CountSum(Len(smg.sets))

\* Three slots in two sets, three calls of the map provider, all embedded.
EmbedsFirstCandidateWitness ==
  /\ PlaceDone
  /\ NoChecks
  /\ Len(smg.sets) = 2
  /\ CountSum(2) = 3
  /\ Len(candidates) = 3
  /\ Len(Embedded) = 3
  /\ num_maps = NumMaps + 3

\* The pipeline on boxed rooms: the call that is running, whether it has
\* returned, and the calls of leaf generators among the recorded calls.
PipelineIdle == pc[1] = "idle" /\ work = <<>>
IsLeafCall(k) == applied[k].gen.kind \in {"empty_room", "edge_portals"}
PreviousLeafCallOn(k) ==
  {j \in 1 .. (k - 1) :
     /\ IsLeafCall(j)
     /\ applied[j].room = applied[k].room
     /\ \A i \in (j + 1) .. (k - 1) : ~(IsLeafCall(i) /\ applied[i].room = applied[k].room)}

\* The recorded calls of a later gen_with come after those of an earlier one,
\* and every leaf generator is given the room as the leaf generator called
\* on it before, in whichever gen_with, left it.
CallsInPipelineOrder ==
  /\ \A j, k \in 1 .. Len(applied) : j < k => applied[j].call <= applied[k].call
  /\ \A k \in 1 .. Len(applied) :
       IsLeafCall(k) => \A j \in PreviousLeafCallOn(k) : applied[k].seen = applied[j].left

\* A SequentialGenerator calls its generators in index order on its own
\* target and entry point, the first on the room as it was given, every
\* other on the room as the one before left it, and returns after the last.
SequentialInIndexOrder ==
  \A k \in 1 .. Len(applied) :
    applied[k].gen.kind = "sequential" =>
      LET l == applied[k].gen.dun_gens
      IN /\ \A i \in 1 .. Len(l) :
              k + i <= Len(applied) =>
                /\ applied[k + i].gen = l[i]
                /\ applied[k + i].idx = i
                /\ applied[k + i].room = applied[k].room
                /\ applied[k + i].entry = applied[k].entry
                /\ applied[k + i].call = applied[k].call
                /\ applied[k + i].seen =
                     (IF i = 1 THEN applied[k].seen ELSE applied[k + i - 1].left)
         /\ (PipelineIdle \/ applied[Len(applied)].call > applied[k].call) =>
              k + Len(l) <= Len(applied)

\* A step that starts a call on the pipeline.
StartsCall == budget[1]' # budget[1]

\* C24: generators are applied strictly in order. A gen_with or
\* gen_leaf_portals_with call on a pipeline starts only when the one before
\* has returned and nothing of it is left to run, and its generators are
\* given the rooms as the earlier calls left them; SequentialGenerator and
\* SequentialDunGen apply their list in index order to the same target, each
\* generator seeing the complete effect of those before it.
GeneratorsAppliedInOrder ==
  /\ [](CallsInPipelineOrder /\ SequentialInIndexOrder)
  /\ [][StartsCall => /\ PipelineIdle
                       /\ applied' = applied
                       /\ room_size' = room_size
                       /\ room_portals' = room_portals]_vars

\* gen_with(SequentialGenerator [EmptyRoom, EdgePortals]) on a new room, where
\* the portal is added only because the room was sized first, followed by a
\* second gen_with whose generator is given the room with that portal.
GeneratorsInOrderWitness ==
  /\ PipelineIdle
  /\ CallNo(1) = 2
  /\ Len(applied) >= 4
  /\ applied[1].gen.kind = "sequential"
  /\ applied[1].seen = [size |-> ZeroSize, count |-> 0]
  /\ applied[2].gen.kind = "empty_room"
  /\ applied[3].gen.kind = "edge_portals"
  /\ applied[3].seen = [size |-> RoomSize, count |-> 0]
  /\ applied[3].left = [size |-> RoomSize, count |-> 1]
  /\ applied[4].call = 2
  /\ applied[4].room = PrimaryRoom
  /\ applied[4].seen = [size |-> RoomSize, count |-> 1]

\* What a closure of an IfMapThenGenerator returns on a room as it was seen.
Holds(f, seen) ==
  (f = "zero_size" /\ seen.size = ZeroSize) \/ (f = "has_portals" /\ seen.count > 0)
PredicateAsked(k) ==
  IF applied[k].entry \in {"dun_gen_placed", "dun_gen_placed_map"}
    THEN applied[k].gen.placed_map_func
    ELSE applied[k].gen.map_func
IsIfMapCall(k) == applied[k].gen.kind = "if_map_then"
WrappedCalledAfter(k) ==
  /\ k < Len(applied)
  /\ applied[k + 1].gen = applied[k].gen.dun_gen
  /\ applied[k + 1].room = applied[k].room
  /\ applied[k + 1].entry = applied[k].entry
  /\ applied[k + 1].call = applied[k].call
  /\ applied[k + 1].seen = applied[k].seen
LeafCalledAfter(k) ==
  k < Len(applied) /\ IsLeafCall(k + 1) /\ applied[k + 1].call = applied[k].call
Returned(k) == PipelineIdle \/ k < Len(applied)
RoomsAsBefore ==
  /\ room_size = pre_rooms.size
  /\ room_portals = pre_rooms.portals
  /\ num_rooms = pre_rooms.num

\* C25: IfMapThenGenerator (IfMapDunGen has the same four bodies) calls its
\* wrapped generator if and only if the closure of the entry point it was
\* called through (map_func for dun_gen and dun_gen_map, placed_map_func for
\* dun_gen_placed and dun_gen_placed_map) is true of the room as it is then;
\* when the closure is false no generator is called and the room is as it was.
IfMapCallsWrappedIffPredicate ==
  \A k \in 1 .. Len(applied) :
    IsIfMapCall(k) =>
      IF Holds(PredicateAsked(k), applied[k].seen)
        THEN Returned(k) => WrappedCalledAfter(k)
        ELSE /\ ~LeafCalledAfter(k)
             /\ k = Len(applied) => Seen(applied[k].room) = applied[k].seen
             /\ applied[k].entry \in {"dun_gen", "dun_gen_placed"} =>
                  /\ \A j \in (k + 1) .. Len(applied) : applied[j].call > applied[k].call
                  /\ CallNo(1) = applied[k].call => RoomsAsBefore

\* One generator whose two closures disagree: called through dun_gen_map its
\* wrapped generator ran, called through dun_gen_placed_map it did not.
IfMapWitness ==
  /\ PipelineIdle
  /\ \E j, k \in 1 .. Len(applied) :
       /\ IsIfMapCall(j) /\ IsIfMapCall(k)
       /\ applied[j].gen = applied[k].gen
       /\ applied[j].entry = "dun_gen_map"
       /\ Holds(applied[j].gen.map_func, applied[j].seen)
       /\ ~Holds(applied[j].gen.placed_map_func, applied[j].seen)
       /\ WrappedCalledAfter(j)
       /\ applied[k].entry = "dun_gen_placed_map"
       /\ Holds(applied[k].gen.map_func, applied[k].seen)
       /\ ~Holds(applied[k].gen.placed_map_func, applied[k].seen)
       /\ ~LeafCalledAfter(k)

\* The recorded call k is the call gen_with made of a generator of this kind,
\* and the calls of its wrapped generator that were recorded in that gen_with.
IsPipelineCallOf(k, kind) ==
  /\ applied[k].gen.kind = kind
  /\ applied[k].entry \in {"dun_gen", "dun_gen_placed"}
WrappedCallsOf(k) ==
  {j \in (k + 1) .. Len(applied) :
     applied[j].call = applied[k].call /\ applied[j].gen = applied[k].gen.dun_gen}
CallsOn(js, r) == Cardinality({j \in js : applied[j].room = r})
\* The targets of the portals the room of the recorded call k had when the
\* call was made (portals are only ever added, at the end of the list).
OneHopTargets(k) ==
  {room_portals[applied[k].room][i].target : i \in 1 .. applied[k].seen.count}
CallReturned(k) == PipelineIdle \/ applied[Len(applied)].call > applied[k].call

\* C26: TraversePortalsGenerator applies its wrapped generator to the target
\* of each portal of the map it is given and to no other map: maps two or
\* more hops away are not given the wrapped generator, also when the targets
\* have portals of their own.
TraversePortalsOneHopOnly ==
  \A k \in 1 .. Len(applied) :
    IsPipelineCallOf(k, "traverse_portals") =>
      /\ \A j \in WrappedCallsOf(k) : applied[j].room \in OneHopTargets(k)
      /\ CallReturned(k) => \A r \in OneHopTargets(k) : CallsOn(WrappedCallsOf(k), r) = 1

\* The recorded calls on the room of the recorded call k that belong to the
\* same gen_with, and the targets of the portals that room had when the last
\* of them had returned.
CallsOnOwnRoom(k) ==
  {j \in k .. Len(applied) :
     applied[j].call = applied[k].call /\ applied[j].room = applied[k].room}
LastOnOwnRoom(k) == CHOOSE j \in CallsOnOwnRoom(k) : \A i \in CallsOnOwnRoom(k) : i <= j
TargetsAfterOwnRoom(k) ==
  {room_portals[applied[k].room][i].target :
     i \in 1 .. applied[LastOnOwnRoom(k)].left.count}

\* C27: TraverseThisAndPortalsGenerator applies its wrapped generator exactly
\* once to the map it is given, through the map entry point, before any other
\* call; only when that call has returned it applies the wrapped generator
\* exactly once to the target of each portal the map then has; and it applies
\* it to no map further away.
ThisThenEachPortalTargetOnce ==
  \A k \in 1 .. Len(applied) :
    IsPipelineCallOf(k, "traverse_this_and_portals") =>
      /\ k < Len(applied) =>
           /\ k + 1 \in WrappedCallsOf(k)
           /\ applied[k + 1].room = applied[k].room
           /\ applied[k + 1].entry = MapEntry(applied[k].entry)
      /\ CallsOn(WrappedCallsOf(k), applied[k].room) <= 1
      /\ \A j \in WrappedCallsOf(k) :
           j > k + 1 =>
             /\ applied[j].room \in TargetsAfterOwnRoom(k)
             /\ applied[j].entry = "dun_gen_placed_map"
             /\ j > LastOnOwnRoom(k)
             /\ CallsOn(WrappedCallsOf(k), applied[j].room) = 1
      /\ CallReturned(k) =>
           /\ CallsOn(WrappedCallsOf(k), applied[k].room) = 1
           /\ \A r \in TargetsAfterOwnRoom(k) : CallsOn(WrappedCallsOf(k), r) = 1

\* A room with a portal to a room that has a portal of its own to a room of
\* size zero: the wrapped EmptyRoomGenerator was called on the first two, in
\* that order, and the room two hops away is still of size zero.
ThisThenEachPortalWitness ==
  /\ PipelineIdle
  /\ CallNo(1) = 1
  /\ Len(applied) = 3
  /\ IsPipelineCallOf(1, "traverse_this_and_portals")
  /\ applied[1].gen.dun_gen.kind = "empty_room"
  /\ applied[2].room = PrimaryRoom
  /\ applied[3].room \in OneHopTargets(1)
  /\ \E r \in Rooms :
       /\ r \in {room_portals[applied[3].room][i].target : i \in 1 .. PortalCount(applied[3].room)}
       /\ room_size[r] = ZeroSize
       /\ CallsOn(WrappedCallsOf(1), r) = 0

\* C28: after one invocation of TraverseThisAndPortalsDunGen its wrapped
\* generator has run exactly once on the map it was given and exactly once on
\* the target of each portal of that map.
ThisAndPortalsDunGenOnceEach ==
  \A k \in 1 .. Len(applied) :
    (IsPipelineCallOf(k, "traverse_this_and_portals_dun_gen") /\ CallReturned(k)) =>
      /\ CallsOn(WrappedCallsOf(k), applied[k].room) = 1
      /\ \A r \in TargetsAfterOwnRoom(k) : CallsOn(WrappedCallsOf(k), r) = 1

\* The call on the pipeline that is running or ran last is a
\* gen_leaf_portals_with, and the recorded calls of its generator.
LeafPortalsCall == job[1].gen = "gen_leaf_portals_with"
WithCalls ==
  {j \in 1 .. Len(applied) : applied[j].call = CallNo(1) /\ applied[j].gen = job[1].with}
WasLeaf(r) == pre_rooms.portals[r] = <<>>

\* C29: gen_leaf_portals_with (gen_leaf_portals_static walks the same way),
\* on DunGen and on DunGenPlaced, applies the generator exactly to the maps of
\* the portal tree that have no portal when the walk reaches them, the primary
\* map included when it has none, each of them once; a map that has a portal
\* when it is reached is never given the generator.
LeafPortalsAppliesToLeavesOnly ==
  LeafPortalsCall =>
    /\ \A j \in WithCalls :
         /\ applied[j].seen.count = 0
         /\ applied[j].room < pre_rooms.num
         /\ WasLeaf(applied[j].room)
         /\ applied[j].entry =
              (IF applied[j].room = PrimaryRoom /\ job[1].entry = "dun_gen"
                 THEN "dun_gen" ELSE "dun_gen_placed_map")
    /\ \A j \in 1 .. Len(applied) :
         applied[j].call = CallNo(1) /\ applied[j].seen.count > 0 => j \notin WithCalls
    /\ PipelineIdle =>
         \A r \in Rooms :
           CallsOn(WithCalls, r) = (IF r < pre_rooms.num /\ WasLeaf(r) THEN 1 ELSE 0)

\* A tree with a leaf one hop and a leaf two hops from the primary map: the
\* generator was called on these two and on neither of the other two rooms.
LeafPortalsWitness ==
  /\ LeafPortalsCall
  /\ PipelineIdle
  /\ pre_rooms.num = 4
  /\ \E a, b, c \in 1 .. 3 :
       /\ {a, b, c} = 1 .. 3
       /\ {pre_rooms.portals[PrimaryRoom][i].target :
             i \in 1 .. Len(pre_rooms.portals[PrimaryRoom])} = {a, c}
       /\ {pre_rooms.portals[c][i].target : i \in 1 .. Len(pre_rooms.portals[c])} = {b}
       /\ {applied[j].room : j \in WithCalls} = {a, b}
       /\ Cardinality(WithCalls) = 2

\* The portals the recorded call k added to its room.
AddedBy(k) ==
  SubSeq(room_portals[applied[k].room], applied[k].seen.count + 1, applied[k].left.count)
OnNonCornerEdge(lp, sz) ==
  \/ lp[1] \in {0, Width(sz) - 1} /\ 1 <= lp[2] /\ lp[2] <= Height(sz) - 2
  \/ lp[2] \in {0, Height(sz) - 1} /\ 1 <= lp[1] /\ lp[1] <= Width(sz) - 2

\* C30: EdgePortalsGenerator on a map of width W and height H, both at least
\* 3, adds exactly as many portals as its count provider returned, and each of
\* them is inside the map on an edge cell that is not a corner: x in {0, W-1}
\* with 1 <= y <= H-2, or y in {0, H-1} with 1 <= x <= W-2.
EdgePortalsOnNonCornerEdge ==
  /\ \A k \in 1 .. Len(applied) :
       (applied[k].gen.kind = "edge_portals"
          /\ Width(applied[k].seen.size) >= 3 /\ Height(applied[k].seen.size) >= 3) =>
         /\ Len(AddedBy(k)) = applied[k].gen.count
         /\ \A i \in 1 .. Len(AddedBy(k)) :
              /\ OnNonCornerEdge(AddedBy(k)[i].lp, applied[k].seen.size)
              /\ 0 <= AddedBy(k)[i].lp[1] /\ AddedBy(k)[i].lp[1] < Width(applied[k].seen.size)
              /\ 0 <= AddedBy(k)[i].lp[2] /\ AddedBy(k)[i].lp[2] < Height(applied[k].seen.size)
  /\ Len(applied) > 0 =>
       PortalCount(applied[Len(applied)].room) = applied[Len(applied)].left.count

\* Three portals added to a room of 4 by 3, on its right, bottom and top wall.
EdgePortalsWitness ==
  /\ PipelineIdle
  /\ Len(applied) = 1
  /\ applied[1].gen = [kind |-> "edge_portals", count |-> 3]
  /\ applied[1].seen = [size |-> <<4, 3>>, count |-> 0]
  /\ PortalCount(PrimaryRoom) = 3
  /\ room_portals[PrimaryRoom][1].lp = <<3, 1>>
  /\ room_portals[PrimaryRoom][2].lp = <<2, 2>>
  /\ room_portals[PrimaryRoom][3].lp = <<1, 0>>

\* The latest application is a reciprocation of a map below the minimum size.
ReciprocatesDegenerateMap(t) ==
  job[t].gen = "recip" /\ IsDegenerate(size[job[t].root])

\* The latest application is a gen_with on a primary room below the minimum.
EdgePortalsOnDegenerateRoom(t) ==
  job[t].gen = "gen_with" /\ IsDegenerate(pre_rooms.size[PrimaryRoom])

\* C31: EdgePortalsGenerator and ReciprocatePortalsGenerator applied to a map
\* whose width or height is below 3 return without adding a portal, without
\* asking the room provider for a room and without changing any map: the
\* reciprocation never reaches its loop over the portals, holds no lock when
\* it has returned, and leaves every portal list as it was; the edge-portal
\* call is recorded as leaving the room as it saw it, and the rooms and their
\* number are those of before the call.
DegenerateInputIsNoOp ==
  \A t \in Threads :
    /\ ReciprocatesDegenerateMap(t) =>
         /\ portals = pre
         /\ sub_maps = pre_subs
         /\ pc[t] \in {"trav", "r_call", "idle"}
         /\ \A m \in Maps : wlock[m] = NoThread
         /\ ~panicked
    /\ EdgePortalsOnDegenerateRoom(t) =>
         /\ room_size = pre_rooms.size
         /\ room_portals = pre_rooms.portals
         /\ num_rooms = pre_rooms.num
         /\ pc[t] \in {"run", "idle"}
    /\ \A k \in 1 .. Len(applied) :
         IsDegenerate(applied[k].seen.size) => applied[k].left = applied[k].seen

\* Three portals were asked for on a room of 2 by 4, and then a map of 2 by 3
\* that owns a portal was reciprocated; both calls have returned.
DegenerateInputWitness ==
  /\ pc[1] = "idle"
  /\ ReciprocatesDegenerateMap(1)
  /\ size[job[1].root] = <<2, 3>>
  /\ portals[job[1].root] # <<>>
  /\ hist = <<job[1].root>>
  /\ Len(applied) = 1
  /\ applied[1].gen = [kind |-> "edge_portals", count |-> 3]
  /\ applied[1].seen.size = <<2, 4>>
  /\ room_size[PrimaryRoom] = <<2, 4>>

\* The latest call on the pipeline was a static entry point of EdgePortalsDunGen.
CalledEdgePortalsStatically(t) ==
  job[t].gen = "gen_static" /\ job[t].static = "edge_portals"

\* C32: a call of EdgePortalsDunGen through any of its static entry points
\* (dun_gen_static, dun_gen_map_static, dun_gen_placed_static,
\* dun_gen_placed_map_static) panics before any room is changed and never
\* returns: the thread is in the panic from the call on, no generator call is
\* made or recorded for it, and the rooms are those of before the call.
EdgePortalsStaticPanics ==
  \A t \in Threads :
    CalledEdgePortalsStatically(t) =>
      /\ pc[t] = "panic"
      /\ work = <<>>
      /\ \A k \in 1 .. Len(applied) : applied[k].call < CallNo(t)
      /\ room_size = pre_rooms.size
      /\ room_portals = pre_rooms.portals
      /\ num_rooms = pre_rooms.num

\* dun_gen_placed_map_static was called on a room of 4 by 3 that has a portal,
\* a room the generator adds portals to when it is given a count.
EdgePortalsStaticWitness ==
  /\ CalledEdgePortalsStatically(1)
  /\ job[1].entry = "dun_gen_placed_map_static"
  /\ pc[1] = "panic"
  /\ room_size[PrimaryRoom] = <<4, 3>>
  /\ PortalCount(PrimaryRoom) = 1

\* The number of cells of the primary map that hold this tile.
TileCount(tile) == Cardinality({p \in GridPositions : tiles[p] = tile})

\* The pipeline filled the W x H area at the origin of a new map with Wall
\* and then the (W-2) x (H-2) area at (1, 1) with Floor, both with
\* FillTilesGenerator.
FilledWallThenInnerFloor(W, H) ==
  /\ \A t \in Threads : pc[t] = "idle"
  /\ Len(applied) = 2
  /\ applied[1].gen =
       [kind |-> "fill_tiles", area |-> Area(<<0, 0>>, <<W, H>>), tile |-> "Wall"]
  /\ applied[2].gen =
       [kind |-> "fill_tiles", area |-> Area(<<1, 1>>, <<W - 2, H - 2>>),
        tile |-> "Floor"]

\* C33: for all W, H >= 2, filling the W x H area at the origin with Wall and
\* then the inner (W-2) x (H-2) rectangle at (1, 1) with Floor, using
\* FillTilesGenerator, leaves exactly 2W + 2H - 4 Wall tiles and (W-2)(H-2)
\* Floor tiles.
FillBoundary ==
  \A W, H \in 2 .. MaxFillSide :
    FilledWallThenInnerFloor(W, H) =>
      /\ TileCount("Wall") = 2 * W + 2 * H - 4
      /\ TileCount("Floor") = (W - 2) * (H - 2)

\* The same for every W and H of which one is above 2, where the inner
\* rectangle has a width or a height.
FillBoundaryAboveTwo ==
  \A W, H \in 2 .. MaxFillSide :
    (FilledWallThenInnerFloor(W, H) /\ (W > 2 \/ H > 2)) =>
      /\ TileCount("Wall") = 2 * W + 2 * H - 4
      /\ TileCount("Floor") = (W - 2) * (H - 2)

\* The recorded call k is a FillTilesGenerator with an area of size (0, 0).
ZeroAreaFill(k) ==
  applied[k].gen.kind = "fill_tiles" /\ applied[k].gen.area.size = ZeroSize

\* C34: EmptyRoomGenerator and FillTilesGenerator given an area of size (0, 0)
\* fill the entire current area of the map with their tile type (Floor for
\* EmptyRoomGenerator, which forwards to a FillTilesGenerator of its area),
\* leave the size of the map and every cell outside that area as they were,
\* and change nothing when the map has size (0, 0) itself.
ZeroAreaFillsWholeMap ==
  \A k \in 1 .. Len(applied) :
    /\ ZeroAreaFill(k) => applied[k].left = applied[k].seen
    /\ (ZeroAreaFill(k) /\ k = Len(applied)) =>
         /\ \A p \in GridPositions :
              tiles[p] = IF p \in AreaCells(AreaFrom(applied[k].seen.size))
                           THEN applied[k].gen.tile ELSE pre_tiles[p]
         /\ applied[k].seen.size = ZeroSize => tiles = pre_tiles
    /\ (applied[k].gen.kind = "empty_room_generator" /\ k < Len(applied)) =>
         /\ applied[k + 1].gen =
              [kind |-> "fill_tiles", area |-> applied[k].gen.area, tile |-> "Floor"]
         /\ applied[k + 1].room = applied[k].room
         /\ applied[k + 1].call = applied[k].call

\* A map of 3 by 2 was filled with Wall, and then EmptyRoomGenerator with a
\* size of (0, 0) made its six cells Floor.
ZeroAreaFillWitness ==
  /\ \A t \in Threads : pc[t] = "idle"
  /\ Len(applied) = 3
  /\ applied[1].gen =
       [kind |-> "fill_tiles", area |-> Area(<<0, 0>>, <<3, 2>>), tile |-> "Wall"]
  /\ applied[2].gen = [kind |-> "empty_room_generator", area |-> Area(<<0, 0>>, ZeroSize)]
  /\ ZeroAreaFill(3)
  /\ room_size[PrimaryRoom] = <<3, 2>>
  /\ TileCount("Floor") = 6
  /\ TileCount("Wall") = 0

\* The recorded call k is a WalledRoomGenerator created with new().
WalledRoomOfNew(k) ==
  /\ applied[k].gen.kind = "walled_room"
  /\ applied[k].gen.dont_replace = DontReplaceOfNew

\* C35: WalledRoomGenerator created with new() never replaces a Portal tile:
\* every position that held TileType::Portal when the generator was called
\* still holds TileType::Portal when it has run.
WalledRoomKeepsPortalTiles ==
  \A k \in 1 .. Len(applied) :
    (WalledRoomOfNew(k) /\ k = Len(applied)) =>
      \A p \in GridPositions : pre_tiles[p] = "Portal" => tiles[p] = "Portal"

\* Portal tiles on the 2 by 2 cells at (1, 1) made a map of 3 by 3, which was
\* then walled in: the three Portal tiles on its right column and bottom row
\* were kept, the other five cells of the perimeter became Wall.
WalledRoomPortalWitness ==
  /\ \A t \in Threads : pc[t] = "idle"
  /\ Len(applied) = 2
  /\ applied[1].gen =
       [kind |-> "fill_tiles", area |-> Area(<<1, 1>>, <<2, 2>>), tile |-> "Portal"]
  /\ WalledRoomOfNew(2)
  /\ applied[2].gen.area = Area(<<0, 0>>, ZeroSize)
  /\ room_size[PrimaryRoom] = <<3, 3>>
  /\ TileCount("Portal") = 4
  /\ TileCount("Wall") = 5
  /\ tiles[<<2, 2>>] = "Portal"

\* The latest application was made through one of the two entry points.
ThroughEntryPoint(t) == job[t].gen = "entry"

\* The body of a generator is running.
InBody(t) == pc[t] \notin {"idle", "run"}

InProgress == {work[i].room : i \in 1 .. Len(work)}

\* C37: VisitMapOnceGenerator inserts the MapId into its visited set and
\* releases the lock on the set before it calls the wrapped generator, so a
\* call of the same guard instance made from inside the wrapped generator
\* never waits for that lock, and returns without running the wrapped
\* generator when it is for a MapId whose call is in progress.
VisitOnceReentrant ==
  \A t \in Threads :
    /\ pc[t] = "v_inner" => cur[t] \in visited /\ vlock = NoThread
    /\ InProgress \subseteq visited
    /\ (pc[t] = "v_lock" /\ work # <<>>) => VisitedLockFree
    /\ (pc[t] = "v_inner" /\ work # <<>>) => cur[t] \notin InProgress
    /\ (pc[t] \in {"v_lock", "v_check"} /\ cur[t] \in InProgress) => ~fresh[t] /\ ~ran[t]
    /\ \A m \in Maps : gcount[m] <= 1

\* Inside the wrapped generator of a call for map 0, the guard was called for
\* map 1, and inside that one for map 0 again: the innermost call has found
\* map 0 in the set.
VisitOnceReentrantWitness ==
  /\ pc[1] = "v_check"
  /\ cur[1] = 0
  /\ Len(work) = 2
  /\ work[1].room = 1
  /\ work[2].room = 0
  /\ vlock = 1
  /\ visited = {0, 1}
  /\ offers[0] = 2

\* Thread t applies a merge generator again, on the root of the call before.
MergesSameRootAgain(t) ==
  /\ job[t].gen = "merge"
  /\ "prev" \in DOMAIN job[t]
  /\ job[t].prev = job[t].root

\* C38: applying the same MergePortalMapsAsSubMapsGenerator a second time on
\* the same root adds no sub-map: the visited set is kept from one call to
\* the next, so the second call returns without changing any map.
MergeAgainAddsNothing ==
  \A t \in Threads :
    MergesSameRootAgain(t) =>
      /\ job[t].root \in mvisited
      /\ sub_maps = pre_subs
      /\ portals = pre
      /\ pc[t] \in {"m_call", "idle"}
      /\ mvlock = NoThread

\* The second call on the same root has returned, after a first call that
\* added two sub-maps to the root.
MergeAgainWitness ==
  /\ MergesSameRootAgain(1)
  /\ pc[1] = "idle"
  /\ budget[1] = 0
  /\ Len(sub_maps[job[1].root]) = 2
  /\ Len(portals[job[1].root]) >= 2

\* The places in the calls of candidate j at which one of ops is called.
StepsOf(j, ops) ==
  {i \in 1 .. Len(candidates[j].steps) : candidates[j].steps[i].op \in ops}

\* C39: in every attempt of SubMapGenerator the validity predicate is
\* evaluated only after all generators of the set and then all global
\* generators were applied to the candidate, and an accepted candidate is
\* embedded at exactly the position that was sampled in that attempt and
\* passed to the predicate.
PredicateAfterGenerators ==
  /\ \A j \in 1 .. Len(candidates) :
       LET c == candidates[j]
           set == smg.sets[c.set]
           checks == StepsOf(j, {"set_check", "global_check"})
           of_set == StepsOf(j, {"set"})
           global == StepsOf(j, {"global"})
       IN /\ set.sub_maps_generators <=> of_set # {}
          /\ smg.global_sub_map_generators <=> global # {}
          /\ \A i \in of_set, k \in global : i < k
          /\ \A i \in of_set \cup global, k \in checks : i < k
          /\ \A i \in of_set \cup global \cup checks : c.steps[i].map = c.id
          /\ \A i \in StepsOf(j, {"provide_position"}) :
               i = 1 /\ c.steps[i].position = c.position
          /\ \A k \in checks : c.steps[k].position = c.position
          /\ (set.validity_check \/ smg.validity_check) => checks # {}
  /\ \A i \in 1 .. Len(Embedded) :
       /\ \E j \in 1 .. Len(candidates) : candidates[j].id = Embedded[i].map
       /\ Embedded[i].pos = candidates[CandidateOf(Embedded[i].map)].position
  /\ \A t \in Threads :
       (pc[t] = "s_set" /\ job[t].gen = "sub_map" /\ candidates # <<>>) =>
         /\ Embedded # <<>>
         /\ Embedded[Len(Embedded)].map = candidates[Len(candidates)].id
         /\ Embedded[Len(Embedded)].pos = candidates[Len(candidates)].position

\* A candidate that both generator lists were applied to was rejected at
\* <<0, 0>>, and the next one was accepted by the check of its set and
\* embedded at <<1, 1>>.
PredicateAfterGeneratorsWitness ==
  /\ Len(candidates) = 2
  /\ Len(Embedded) = 1
  /\ candidates[1].position = <<0, 0>>
  /\ candidates[2].position = <<1, 1>>
  /\ Embedded[1].pos = <<1, 1>>
  /\ candidates[2].generated = <<"set", "global">>
  /\ StepsOf(2, {"set_check"}) = {5}
  /\ StepsOf(1, {"global_check"}) # {}

\* C40: no generator removes a portal or a sub-map: over any sequence of
\* generator applications the number of portals and the number of sub-maps
\* of every map never decrease.
NeverRemovesPortalOrSubMap ==
  [][/\ \A m \in Maps :
         /\ Len(portals'[m]) >= Len(portals[m])
         /\ Len(sub_maps'[m]) >= Len(sub_maps[m])]_vars

\* After two applications a map of the store has more portals than at the
\* start and a map has a sub-map.
NeverRemovesWitness ==
  /\ pc[1] = "idle"
  /\ budget[1] = 0
  /\ \E m \in Maps : Len(portals[m]) > Len(before[m])
  /\ \E m \in Maps : sub_maps[m] # <<>>

====
